---------------------------- MODULE Spec2Model ----------------------------
(***************************************************************************)
(* Kinen TempFin configuration subsystem: the registry (cfgArray), the     *)
(* token resolver, the cmdObj list and shared string pool, the generic     *)
(* accessors, the JSON parser/serializer and the text-mode parser.         *)
(*                                                                         *)
(* C strings are sequences of one-character strings; the terminating NUL   *)
(* is implicit at position Len(s)+1.  A pointer into a string is a         *)
(* position 1..Len(s)+1, and 0 is the NULL pointer.                        *)
(*                                                                         *)
(* Doubles are fixed-point integers counting 1/SCALE units, so that 0.1    *)
(* is 1000 and 0.1234 is 1234; "%0.3f" keeps three of the four decimals.   *)
(***************************************************************************)
EXTENDS Integers, Sequences, FiniteSets, TLC

VARIABLES
    target,       \* registry index -> value of the bound memory location
    cmd_list,     \* the cmdObj arena: header, body, footer
    cmdStr,       \* the shared string pool: [wp, string]
    comm_mode,    \* kc.comm_mode
    line,         \* the text line last handed to a parser
    status,       \* status of the last request
    out_buf,      \* the response last written
    calls,        \* accessors invoked by the last request, in order
    old_target,   \* target as it was when the last request started
    faults,       \* undefined behaviour met by the last request
    nreq,         \* requests handled so far
    nvm,          \* non-volatile memory: registry index -> stored value
    hw,           \* heater, sensor, PID and PWM fields that no registry entry binds
    rx,           \* the USART receiver: wire, RX queue and the line reader's context
    probe         \* operand and result of the last direct call of a function

vars == <<target, cmd_list, cmdStr, comm_mode, line, status, out_buf, calls,
          old_target, faults, nreq, nvm, hw, rx, probe>>

---------------------------------------------------------------------------
(* Characters and C string functions                                       *)

NUL == "NUL"
SCALE == 10000

Digits == <<"0","1","2","3","4","5","6","7","8","9">>
DigitSet == {Digits[i] : i \in 1..10}
DigitVal(c) == (CHOOSE i \in 1..10 : Digits[i] = c) - 1

Min(S) == CHOOSE x \in S : \A y \in S : x <= y
Max(S) == CHOOSE x \in S : \A y \in S : x >= y

\* the character at pointer p, NUL at the terminator
At(s, p) == IF p >= 1 /\ p <= Len(s) THEN s[p] ELSE NUL

\* the C string that starts at pointer p and ends before pointer e
Cut(s, p, e) == IF e > p THEN SubSeq(s, p, e - 1) ELSE <<>>
From(s, p) == Cut(s, p, Len(s) + 1)

\* strchr(s + p - 1, c): pointer to the first c at or after p, 0 when none
strchr(s, p, c) ==
    LET hit == {i \in p..Len(s) : s[i] = c}
    IN  IF hit = {} THEN 0 ELSE Min(hit)

\* strpbrk(s + p - 1, accept)
strpbrk(s, p, accept) ==
    LET hit == {i \in p..Len(s) : s[i] \in accept}
    IN  IF hit = {} THEN 0 ELSE Min(hit)

\* strncpy(dst, src, n) into a buffer whose byte n is always NUL
strncpy(src, n) == IF Len(src) > n THEN SubSeq(src, 1, n) ELSE src

UpperCase == <<"A","B","C","D","E","F","G","H","I","J","K","L","M",
               "N","O","P","Q","R","S","T","U","V","W","X","Y","Z">>
LowerCase == <<"a","b","c","d","e","f","g","h","i","j","k","l","m",
               "n","o","p","q","r","s","t","u","v","w","x","y","z">>
tolower(c) ==
    IF \E i \in 1..26 : UpperCase[i] = c
    THEN LowerCase[CHOOSE i \in 1..26 : UpperCase[i] = c]
    ELSE c

\* characters at or below ' ' and DEL
CtrlOrSpace == {" ", "\t", "\n", "\r", "DEL"}

---------------------------------------------------------------------------
(* Status codes                                                            *)

SC_OK == 0
SC_EAGAIN == 2
SC_NOOP == 3
SC_COMPLETE == 4
SC_BUFFER_FULL == 13
SC_UNRECOGNIZED_COMMAND == 40
SC_BAD_NUMBER_FORMAT == 42
SC_INPUT_EXCEEDS_MAX_LENGTH == 43
SC_INPUT_VALUE_UNSUPPORTED == 47
SC_JSON_SYNTAX_ERROR == 48
SC_JSON_TOO_MANY_PAIRS == 49

---------------------------------------------------------------------------
(* Sizes                                                                   *)

CMD_GROUP_LEN == 3
CMD_TOKEN_LEN == 5
CMD_BODY_LEN == 12
CMD_LIST_LEN == CMD_BODY_LEN + 2
CMD_MAX_OBJECTS == CMD_BODY_LEN - 1
CMD_SHARED_STRING_LEN == 16
JSON_OUTPUT_STRING_MAX == 100
NO_MATCH == 255

---------------------------------------------------------------------------
(* cfgArray                                                                *)

F_INITIALIZE == 1
F_PERSIST == 2
F_NOSTRIP == 4
f00 == {}
f07 == {F_INITIALIZE, F_PERSIST, F_NOSTRIP}

Item(g, t, f, k, d) == [group |-> g, token |-> t, flags |-> f, kind |-> k, def_value |-> d]

cfgArray == <<
    Item(<<"s","y","s">>, <<"f","b">>, f07, "dbl", 70300),
    Item(<<"s","y","s">>, <<"f","v">>, f07, "dbl", 1000),
    Item(<<"s","y","s">>, <<"h","v">>, f07, "dbl", 1000),
    Item(<<"h","1">>, <<"h","1","s","t">>,     f00, "ui8", 0),
    Item(<<"h","1">>, <<"h","1","t","m","p">>, f00, "dbl", -2740000),
    Item(<<"h","1">>, <<"h","1","s","e","t">>, f00, "dbl", 100000),
    Item(<<"h","1">>, <<"h","1","h","y","s">>, f00, "ui8", 100000),
    Item(<<"h","1">>, <<"h","1","a","m","b">>, f00, "dbl", 400000),
    Item(<<"h","1">>, <<"h","1","o","v","r">>, f00, "dbl", 3000000),
    Item(<<"h","1">>, <<"h","1","a","t","o">>, f00, "dbl", 900000),
    Item(<<"h","1">>, <<"h","1","r","e","g">>, f00, "dbl", 30000),
    Item(<<"h","1">>, <<"h","1","r","t","o">>, f00, "dbl", 3000000),
    Item(<<"h","1">>, <<"h","1","b","a","d">>, f00, "ui8", 50000),
    Item(<<"s","1">>, <<"s","1","s","t">>,     f00, "ui8", 0),
    Item(<<"s","1">>, <<"s","1","t","m","p">>, f00, "dbl", -2740000),
    Item(<<"s","1">>, <<"s","1","s","v","m">>, f00, "dbl", 11000),
    Item(<<"s","1">>, <<"s","1","r","v","m">>, f00, "dbl", 200000),
    Item(<<"p","1">>, <<"p","1","k","p">>,     f00, "dbl", 50000),
    Item(<<"p","1">>, <<"p","1","k","i">>,     f00, "dbl", 1000),
    Item(<<"p","1">>, <<"p","1","k","d">>,     f00, "dbl", 5000),
    Item(<<"p","1">>, <<"p","1","s","m","x">>, f00, "dbl", 1000000),
    Item(<<"p","1">>, <<"p","1","s","m","n">>, f00, "dbl", 0),
    Item(<<>>, <<"s","y","s">>, f00, "grp", 0),
    Item(<<>>, <<"h","1">>,     f00, "grp", 0),
    Item(<<>>, <<"s","1">>,     f00, "grp", 0),
    Item(<<>>, <<"p","1">>,     f00, "grp", 0) >>

\* cfgArray[i] with the C index i = 0..CMD_INDEX_MAX-1
cfg(i) == cfgArray[i + 1]

CMD_COUNT_GROUPS == 4
CMD_COUNT_UBER_GROUPS == 0
CMD_INDEX_MAX == Len(cfgArray)
CMD_INDEX_END_SINGLES == CMD_INDEX_MAX - CMD_COUNT_UBER_GROUPS - CMD_COUNT_GROUPS
CMD_INDEX_START_GROUPS == CMD_INDEX_MAX - CMD_COUNT_UBER_GROUPS - CMD_COUNT_GROUPS
CMD_INDEX_START_UBER_GROUPS == CMD_INDEX_MAX - CMD_COUNT_UBER_GROUPS

index_is_single(i) == i <= CMD_INDEX_END_SINGLES
index_lt_groups(i) == i <= CMD_INDEX_START_GROUPS
cmd_index_is_group(i) == i >= CMD_INDEX_START_GROUPS /\ i < CMD_INDEX_START_UBER_GROUPS

Tokens(tbl) == [i \in 1..Len(tbl) |-> tbl[i].token]

---------------------------------------------------------------------------
(* cmd_get_index(): the token resolver                                     *)

\* byte k (from 0) of a NUL-terminated character array
Byte(s, k) == At(s, k + 1)

\* a scan that takes an entry as soon as the entry's token is used up
EntryMatchesTokenEnd(tok, str) ==
    /\ Len(tok) > 0
    /\ \A k \in 0..(Len(tok) - 1) : Byte(tok, k) = Byte(str, k)

\* one pass of the scan loop over entry token tok with the key buffer str:
\* TRUE when the loop body returns the entry, FALSE when it continues
EntryMatches(tok, str) ==
    IF Byte(tok, 0) # Byte(str, 0) THEN FALSE
    ELSE IF Byte(tok, 1) = NUL /\ Byte(str, 1) = NUL THEN TRUE
    ELSE IF Byte(tok, 1) # Byte(str, 1) THEN FALSE
    ELSE IF Byte(tok, 2) = NUL /\ Byte(str, 2) = NUL THEN TRUE
    ELSE IF Byte(tok, 2) # Byte(str, 2) THEN FALSE
    ELSE IF Byte(tok, 3) = NUL /\ Byte(str, 3) = NUL THEN TRUE
    ELSE IF Byte(tok, 3) # Byte(str, 3) THEN FALSE
    ELSE IF Byte(tok, 4) = NUL /\ Byte(str, 4) = NUL THEN TRUE
    ELSE IF Byte(tok, 4) # Byte(str, 4) THEN FALSE
    ELSE TRUE

\* the linear scan of the table tokens with the key buffer str
ScanTokens(tokens, str) ==
    LET hit == {i \in 1..Len(tokens) : EntryMatches(tokens[i], str)}
    IN  IF hit = {} THEN NO_MATCH ELSE Min(hit) - 1

\* strcpy(str, group); strcat(str, token) into char str[CMD_TOKEN_LEN+1]
KeyOf(group, token) == group \o token
KeyOverflows(group, token) == Len(KeyOf(group, token)) > CMD_TOKEN_LEN

\* What cmd_get_index can return.  A key that fits the buffer is scanned.  A
\* longer key is written past the end of str: the scan of the bytes that did
\* land in str is one outcome, and the overwritten stack makes any other index
\* an outcome too.
IndexOutcomes(tokens, group, token) ==
    IF KeyOverflows(group, token)
    THEN {ScanTokens(tokens, KeyOf(group, token)), NO_MATCH} \cup (0..(Len(tokens) - 1))
    ELSE {ScanTokens(tokens, KeyOf(group, token))}

cmd_get_index(group, token) == ScanTokens(Tokens(cfgArray), KeyOf(group, token))

---------------------------------------------------------------------------
(* The state after main() has run its initialisation                       *)

TYPE_EMPTY == "Empty"
TYPE_NULL == "Null"
TYPE_BOOL == "Bool"
TYPE_INTEGER == "Integer"
TYPE_FLOAT == "Float"
TYPE_STRING == "String"
TYPE_ARRAY == "Array"
TYPE_PARENT == "Parent"

JSON_MODE == "json"
TEXT_MODE == "text"

NoString == -1

\* a cmdObj of the static cmd_list before anything wrote it
ZeroObj == [type |-> TYPE_EMPTY, index |-> 0, value |-> 0, token |-> <<>>,
            group |-> <<>>, stringp |-> NoString, depth |-> 0]

\* the targets as heater_init(), sensor_init(), pid_init() and cfg_init() leave them
InitTarget ==
    [i \in 0..(CMD_INDEX_END_SINGLES - 1) |->
        IF F_INITIALIZE \in cfg(i).flags THEN cfg(i).def_value
        ELSE IF cfg(i).token \in {<<"h","1","a","m","b">>, <<"h","1","o","v","r">>,
                                  <<"h","1","a","t","o">>, <<"h","1","r","e","g">>,
                                  <<"h","1","r","t","o">>, <<"h","1","b","a","d">>,
                                  <<"s","1","s","v","m">>, <<"s","1","r","v","m">>,
                                  <<"p","1","k","p">>, <<"p","1","k","i">>,
                                  <<"p","1","k","d">>, <<"p","1","s","m","x">>,
                                  <<"p","1","s","m","n">>}
             THEN cfg(i).def_value
        ELSE IF cfg(i).token = <<"s","1","t","m","p">> THEN -2731500
        ELSE 0]

\* a reset that sets up the header and leaves the other nodes as they are
cmd_reset_list_header_only(list) ==
    [k \in 1..CMD_LIST_LEN |->
        IF k = 1
        THEN [list[k] EXCEPT !.index = 0, !.depth = 0, !.type = TYPE_PARENT,
                             !.token = <<"r">>]
        ELSE list[k]]

\* cmd_reset_list() applied to a list: every object keeps value, group and stringp
cmd_reset_list(list) ==
    [k \in 1..CMD_LIST_LEN |->
        IF k = 1
        THEN [list[k] EXCEPT !.index = 0, !.depth = 0, !.type = TYPE_PARENT,
                             !.token = <<"r">>]
        ELSE [list[k] EXCEPT !.index = 0, !.depth = 1, !.type = TYPE_EMPTY,
                             !.token = <<>>]]

\* the static cmdStr before anything wrote it
ZeroPool == [wp |-> 0, string |-> [i \in 1..CMD_SHARED_STRING_LEN |-> NUL]]

NoProbe == [op |-> "none", stage |-> "done", n |-> 0]

\* the NVM cells of the entries up to the first group, as an erased EEPROM
\* holds them (all bits set, which is no value a request carries):
\* cfg_init() writes none
NvmErased == 0 - 1
InitNvm == [i \in 0..CMD_INDEX_START_GROUPS |-> NvmErased]

---------------------------------------------------------------------------
(* The heater, its sensor, PID and PWM (heater.c, sensor.c, system.c).     *)
(* heater.state, .temperature, .setpoint, .hysteresis and the settings,    *)
(* sensor.state and .temperature and the PID gains and limits are the      *)
(* registry's targets and live in target; the fields no entry binds live   *)
(* in hw.  Temperatures and seconds are in 1/SCALE.  The LED pin is left   *)
(* out.                                                                    *)

HEATER_OFF == 0
HEATER_SHUTDOWN == 1
HEATER_HEATING == 2
HEATER_REGULATED == 3

HEATER_OK == 0
HEATER_AMBIENT_TIMED_OUT == 1
HEATER_REGULATION_TIMED_OUT == 2
HEATER_OVERHEATED == 3
HEATER_SENSOR_ERROR == 4

HEATER_HYSTERESIS == 10
HEATER_TICK_SECONDS == SCALE \div 10
PID_DT == HEATER_TICK_SECONDS
PID_EPSILON == SCALE \div 10
PID_INITIAL_INTEGRAL == 200 * SCALE
PID_OFF == 0
PID_ON == 1
PWM_FREQUENCY == 1000

SENSOR_OFF == 0
SENSOR_NO_DATA == 1
SENSOR_ERROR == 2
SENSOR_HAS_DATA == 3
SENSOR_IDLE == 0
SENSOR_TAKING_READING == 1
SENSOR_ERROR_BAD_READINGS == 2
SENSOR_ERROR_DISCONNECTED == 3
SENSOR_ERROR_NO_POWER == 4
SENSOR_DISCONNECTED_TEMPERATURE == 400 * SCALE
SENSOR_NO_POWER_TEMPERATURE == 0 - 2 * SCALE
ABSOLUTE_ZERO == 0 - 2731500
LESS_THAN_ZERO == 0 - 274 * SCALE

\* the registry index of the entry that binds a field
Bound(tok) == ScanTokens(Tokens(cfgArray), tok)
heater_state == Bound(<<"h","1","s","t">>)
heater_temperature == Bound(<<"h","1","t","m","p">>)
heater_setpoint == Bound(<<"h","1","s","e","t">>)
heater_hysteresis == Bound(<<"h","1","h","y","s">>)
heater_ambient_temperature == Bound(<<"h","1","a","m","b">>)
heater_overheat_temperature == Bound(<<"h","1","o","v","r">>)
heater_ambient_timeout == Bound(<<"h","1","a","t","o">>)
heater_regulation_range == Bound(<<"h","1","r","e","g">>)
heater_regulation_timeout == Bound(<<"h","1","r","t","o">>)
heater_bad_reading_max == Bound(<<"h","1","b","a","d">>)
sensor_state == Bound(<<"s","1","s","t">>)
sensor_temperature == Bound(<<"s","1","t","m","p">>)
pid_Kp == Bound(<<"p","1","k","p">>)
pid_Ki == Bound(<<"p","1","k","i">>)
pid_Kd == Bound(<<"p","1","k","d">>)
pid_output_max == Bound(<<"p","1","s","m","x">>)
pid_output_min == Bound(<<"p","1","s","m","n">>)

\* hw after heater_init(), sensor_init(), pid_init() and pwm_init()
InitHw ==
    [code |-> HEATER_OK, toggle |-> 0, bad_reading_count |-> 0, regulation_timer |-> 0,
     sensor_code |-> SENSOR_IDLE,
     pid_state |-> PID_ON, pid_output |-> 0, pid_error |-> 0, pid_prev_error |-> 0,
     pid_integral |-> 0, pid_derivative |-> 0,
     pwm_freq |-> 0, pwm_duty |-> 0,
     ops |-> <<>>]

\* the receiver after xio_open_usart(): nothing on the wire, an empty RX
\* queue, and no line being read
InitRx ==
    [wire |-> <<>>, q |-> <<>>, flag_in_line |-> FALSE, len |-> 0, buf |-> <<>>,
     signal |-> "XIO_SIG_OK", ret |-> "none", overran |-> FALSE]

InitProgram ==
    /\ target = InitTarget
    /\ cmd_list = cmd_reset_list([k \in 1..CMD_LIST_LEN |-> ZeroObj])
    /\ cmdStr = ZeroPool
    /\ comm_mode = JSON_MODE
    /\ line = <<>>
    /\ status = SC_OK
    /\ out_buf = <<>>
    /\ calls = <<>>
    /\ old_target = InitTarget
    /\ faults = {}
    /\ nreq = 0
    /\ nvm = InitNvm
    /\ hw = InitHw
    /\ rx = InitRx
    /\ probe = NoProbe

---------------------------------------------------------------------------
(* cmdObj and string pool operations                                       *)

\* a reset of object k that takes the previous node's depth, Parent or not
cmd_reset_obj_same_depth(list, k) ==
    [list EXCEPT ![k] =
        [type |-> TYPE_EMPTY, index |-> 0, value |-> 0, token |-> <<>>,
         group |-> <<>>, stringp |-> NoString,
         depth |-> IF k = 1 THEN 0 ELSE list[k - 1].depth]]

\* cmd_reset_obj() on object k of the list
cmd_reset_obj(list, k) ==
    [list EXCEPT ![k] =
        [type |-> TYPE_EMPTY, index |-> 0, value |-> 0, token |-> <<>>,
         group |-> <<>>, stringp |-> NoString,
         depth |-> IF k = 1 THEN 0
                   ELSE IF list[k - 1].type = TYPE_PARENT THEN list[k - 1].depth + 1
                   ELSE list[k - 1].depth]]

\* a copy into the pool that never reports it full
cmd_copy_string_unchecked(pool, src) ==
    [status |-> SC_OK, pool |-> [pool EXCEPT !.wp = pool.wp + Len(src) + 1],
     stringp |-> pool.wp, overrun |-> FALSE]

\* cmd_copy_string(): [status, pool, stringp, overrun]; overrun is TRUE when
\* the terminating NUL lands on the byte after cmdStr.string
cmd_copy_string(pool, src) ==
    IF pool.wp + Len(src) > CMD_SHARED_STRING_LEN
    THEN [status |-> SC_BUFFER_FULL, pool |-> pool, stringp |-> NoString, overrun |-> FALSE]
    ELSE [status |-> SC_OK,
          pool |-> [wp |-> pool.wp + Len(src) + 1,
                    string |-> [i \in 1..CMD_SHARED_STRING_LEN |->
                                  IF i - 1 >= pool.wp /\ i - 1 < pool.wp + Len(src)
                                  THEN src[i - pool.wp]
                                  ELSE IF i - 1 = pool.wp + Len(src) THEN NUL
                                  ELSE pool.string[i]]],
          stringp |-> pool.wp,
          overrun |-> (pool.wp + Len(src) = CMD_SHARED_STRING_LEN)]

\* the C string a stringp points to
StringAt(pool, sp) ==
    LET nuls == {i \in (sp + 1)..CMD_SHARED_STRING_LEN : pool.string[i] = NUL}
        e == IF nuls = {} THEN CMD_SHARED_STRING_LEN + 1 ELSE Min(nuls)
    IN  IF sp = NoString THEN <<>> ELSE Cut(pool.string, sp + 1, e)

---------------------------------------------------------------------------
(* Numbers: strtod() and the printf conversions of the serializer          *)

Pow10(n) == IF n <= 0 THEN 1 ELSE IF n = 1 THEN 10 ELSE IF n = 2 THEN 100
            ELSE IF n = 3 THEN 1000 ELSE 10000

\* pointer to the first character at or after p that is not a digit
RECURSIVE SkipDigits(_, _)
SkipDigits(s, p) == IF At(s, p) \in DigitSet THEN SkipDigits(s, p + 1) ELSE p

\* pointer to the first character at or after p that isspace() rejects
RECURSIVE SkipSpace(_, _)
SkipSpace(s, p) == IF At(s, p) \in {" ", "\t", "\n", "\r"} THEN SkipSpace(s, p + 1) ELSE p

\* the number written by the digits in [p, e)
RECURSIVE DigitsValue(_, _, _)
DigitsValue(s, p, e) ==
    IF e <= p THEN 0 ELSE 10 * DigitsValue(s, p, e - 1) + DigitVal(s[e - 1])

\* strtod(s + p - 1, &end): [value, end]; end = p when nothing converts.
\* Decimal forms only: sign, digits, fraction, exponent.  The fixed-point
\* value keeps four decimals.
strtod(s, p) ==
    LET Scaled(mant, ex) ==
            IF ex >= 0 THEN mant * Pow10(ex) ELSE mant \div Pow10(0 - ex)
        Signed(neg, mag, e) == [value |-> IF neg THEN 0 - mag ELSE mag, end |-> e]
        \* sign at p0, digits in [p1, p2), fraction up to p3, exponent digits at pe
        Convert(neg, p1, p2, p3, pe) ==
            LET hasFrac == At(s, p2) = "."
                nInt == p2 - p1
                nFrac == IF hasFrac THEN p3 - (p2 + 1) ELSE 0
                hasExp == pe # 0 /\ At(s, pe) \in DigitSet
                p4 == IF hasExp THEN SkipDigits(s, pe) ELSE p3
                ex == IF hasExp THEN
                         (IF At(s, p3 + 1) = "-" THEN 0 - DigitsValue(s, pe, p4)
                          ELSE DigitsValue(s, pe, p4))
                      ELSE 0
                kept == IF nFrac > 4 THEN 4 ELSE nFrac
                mant == DigitsValue(s, p1, p2) * SCALE
                        + (IF nFrac = 0 THEN 0
                           ELSE DigitsValue(s, p2 + 1, p2 + 1 + kept) * Pow10(4 - kept))
            IN  IF nInt + nFrac = 0
                THEN [value |-> 0, end |-> p]
                ELSE Signed(neg, Scaled(mant, ex), p4)
        Exponent(neg, p1, p2, p3) ==
            Convert(neg, p1, p2, p3,
                    IF At(s, p3) = "e" THEN
                       (IF At(s, p3 + 1) \in {"-", "+"} THEN p3 + 2 ELSE p3 + 1)
                    ELSE 0)
        Fraction(neg, p1, p2) ==
            Exponent(neg, p1, p2, IF At(s, p2) = "." THEN SkipDigits(s, p2 + 1) ELSE p2)
        Whole(neg, p1) == Fraction(neg, p1, SkipDigits(s, p1))
        Sign(p0) == Whole(At(s, p0) = "-", IF At(s, p0) \in {"-", "+"} THEN p0 + 1 ELSE p0)
    IN  Sign(SkipSpace(s, p))

\* the decimal digits of a natural number
RECURSIVE DecDigits(_)
DecDigits(n) ==
    IF n < 10 THEN <<Digits[n + 1]>> ELSE Append(DecDigits(n \div 10), Digits[(n % 10) + 1])

Abs(v) == IF v < 0 THEN 0 - v ELSE v

\* sprintf("%1.0f", v): rounded to a whole number
Fmt_1_0f(v) ==
    (IF v < 0 THEN <<"-">> ELSE <<>>) \o DecDigits((Abs(v) + (SCALE \div 2)) \div SCALE)

\* sprintf("%0.3f", v): rounded to three decimals
Fmt_0_3f(v) ==
    LET m == (Abs(v) + 5) \div 10
        f == m % 1000
    IN  (IF v < 0 THEN <<"-">> ELSE <<>>) \o DecDigits(m \div 1000) \o <<".">>
        \o <<Digits[(f \div 100) + 1], Digits[((f \div 10) % 10) + 1], Digits[(f % 10) + 1]>>

---------------------------------------------------------------------------
(* JSON parser                                                             *)

\* _normalize_json_string(): the characters kept, in order
\* in_comment as the loop holds it when it reads character i: an earlier "("
\* with no ")" after it
InComment(s, i) ==
    \E j \in 1..(i - 1) : s[j] = "(" /\ \A m \in (j + 1)..(i - 1) : s[m] # ")"

\* the characters the loop writes through wr, in order
Normalized(s) ==
    LET keep == {i \in 1..Len(s) : InComment(s, i) \/ s[i] \notin CtrlOrSpace}
        nth(n) == CHOOSE i \in keep : Cardinality({j \in keep : j < i}) = n - 1
    IN  [n \in 1..Cardinality(keep) |->
            IF InComment(s, nth(n)) THEN s[nth(n)] ELSE tolower(s[nth(n)])]

\* a normalization with no length check
normalize_any_length(s, size) == [status |-> SC_OK, str |-> Normalized(s)]

normalize_json_string(s, size) ==
    IF Len(s) > size
    THEN [status |-> SC_INPUT_EXCEEDS_MAX_LENGTH, str |-> s]
    ELSE [status |-> SC_OK, str |-> Normalized(s)]

\* the value a cmdObj takes for C true, and for the enum constant TYPE_NULL
TrueValue == SCALE
NullValue == SCALE

NV(st, list, pool, p, f) == [status |-> st, list |-> list, pool |-> pool, p |-> p, faults |-> f]

\* a terminator search that takes a comma before the closing curly as the end
nv_terminator_lenient(list, pool, s, pv, f) ==
    LET t == strpbrk(s, pv, {"}", ","})
        t1 == IF At(s, t) = "}" THEN t + 1 ELSE t
    IN  IF t = 0 THEN NV(SC_JSON_SYNTAX_ERROR, list, pool, 0, f)
        ELSE IF At(s, t1) = "," /\ At(s, t1 + 1) # "}" THEN NV(SC_EAGAIN, list, pool, t1, f)
        ELSE NV(SC_OK, list, pool, t1 + 1, f)

\* "process comma separators and end curlies", searching from pointer pv
nv_terminator(list, pool, s, pv, f) ==
    LET t == strpbrk(s, pv, {"}", ","})
        t1 == IF At(s, t) = "}" THEN t + 1 ELSE t
    IN  IF t = 0 THEN NV(SC_JSON_SYNTAX_ERROR, list, pool, 0, f)
        ELSE IF At(s, t1) = "," THEN NV(SC_EAGAIN, list, pool, t1, f)
        ELSE NV(SC_OK, list, pool, t1 + 1, f)

\* the value part, with the name already copied; v points at the value
nv_value(list, pool, k, s, v, f) ==
    LET ch == At(s, v)
        num == strtod(s, v)
        q3 == strchr(s, v + 1, "\"")
        cs == cmd_copy_string(pool, Cut(s, v + 1, q3))
        ca == cmd_copy_string(pool, From(s, v))
        fs == IF cs.overrun THEN f \cup {"pool_overrun"} ELSE f
        fa == IF ca.overrun THEN f \cup {"pool_overrun"} ELSE f
    IN  IF ch = "n" \/ (ch = "\"" /\ At(s, v + 1) = "\"")
        THEN nv_terminator([list EXCEPT ![k].type = TYPE_NULL, ![k].value = NullValue],
                           pool, s, v, f)
        ELSE IF ch \in DigitSet \/ ch = "-"
        THEN IF num.end = v
             THEN NV(SC_BAD_NUMBER_FORMAT, [list EXCEPT ![k].value = num.value], pool, v, f)
             ELSE nv_terminator([list EXCEPT ![k].type = TYPE_FLOAT, ![k].value = num.value],
                                pool, s, v, f)
        ELSE IF ch = "{"
        THEN NV(SC_EAGAIN, [list EXCEPT ![k].type = TYPE_PARENT], pool, v + 1, f)
        ELSE IF ch = "\""
        THEN IF q3 = 0
             THEN NV(SC_JSON_SYNTAX_ERROR, [list EXCEPT ![k].type = TYPE_STRING], pool, v + 1, f)
             ELSE IF cs.status # SC_OK
             THEN NV(cs.status, [list EXCEPT ![k].type = TYPE_STRING], pool, v + 1, f)
             ELSE nv_terminator([list EXCEPT ![k].type = TYPE_STRING, ![k].stringp = cs.stringp],
                                cs.pool, s, q3 + 1, fs)
        ELSE IF ch = "t"
        THEN nv_terminator([list EXCEPT ![k].type = TYPE_BOOL, ![k].value = TrueValue],
                           pool, s, v, f)
        ELSE IF ch = "f"
        THEN nv_terminator([list EXCEPT ![k].type = TYPE_BOOL, ![k].value = 0], pool, s, v, f)
        ELSE IF ch = "["
        THEN IF ca.status # SC_OK
             THEN NV(ca.status, [list EXCEPT ![k].type = TYPE_ARRAY], pool, v, f)
             ELSE NV(SC_INPUT_VALUE_UNSUPPORTED,
                     [list EXCEPT ![k].type = TYPE_ARRAY, ![k].stringp = ca.stringp],
                     ca.pool, v, fa)
        ELSE NV(SC_JSON_SYNTAX_ERROR, list, pool, v, f)

\* a pair parser that reports a missing colon as an unsupported value
get_nv_pair_colon_differs(list, pool, k, s, p, f) ==
    LET l0 == cmd_reset_obj(list, k)
        q1 == strchr(s, p, "\"")
        q2 == strchr(s, q1 + 1, "\"")
        co == strchr(s, q2 + 1, ":")
        l1 == [l0 EXCEPT ![k].token = strncpy(Cut(s, q1 + 1, q2), CMD_TOKEN_LEN)]
    IN  IF q1 = 0 THEN NV(SC_JSON_SYNTAX_ERROR, l0, pool, 0, f)
        ELSE IF q2 = 0 THEN NV(SC_JSON_SYNTAX_ERROR, l0, pool, 0, f)
        ELSE IF co = 0 THEN NV(SC_INPUT_VALUE_UNSUPPORTED, l1, pool, 0, f)
        ELSE nv_value(l1, pool, k, s, co + 1, f)

\* _get_nv_pair_strict() on object k, reading the normalized string s from pointer p
get_nv_pair_strict(list, pool, k, s, p, f) ==
    LET l0 == cmd_reset_obj(list, k)
        q1 == strchr(s, p, "\"")
        q2 == strchr(s, q1 + 1, "\"")
        co == strchr(s, q2 + 1, ":")
        l1 == [l0 EXCEPT ![k].token = strncpy(Cut(s, q1 + 1, q2), CMD_TOKEN_LEN)]
    IN  IF q1 = 0 THEN NV(SC_JSON_SYNTAX_ERROR, l0, pool, 0, f)
        ELSE IF q2 = 0 THEN NV(SC_JSON_SYNTAX_ERROR, l0, pool, 0, f)
        ELSE IF co = 0 THEN NV(SC_JSON_SYNTAX_ERROR, l1, pool, 0, f)
        ELSE nv_value(l1, pool, k, s, co + 1, f)

---------------------------------------------------------------------------
(* Accessors and the dispatch gateways.  An execution state E holds the    *)
(* list, the targets, the call log, the faults and the last status.  The   *)
(* log has an entry <<what, index>> for every accessor that ran ("get",    *)
(* "set"), for every gateway call that ASSERT_CMD_INDEX turned away        *)
(* ("fail"), for every cmd_persist() call ("persist") and for every        *)
(* cmd_write_NVM_value() it reached ("nvm").                               *)

Log(E, what, k) == [E EXCEPT !.calls = Append(@, <<what, E.list[k].index>>)]
Fault(E, what) == [E EXCEPT !.faults = @ \cup {what}]

\* (uint8_t) of a double: the fraction is dropped; a value that does not fit
\* is undefined, and u8 names what the conversion then yields
TruncToInt(v) == IF v < 0 THEN 0 - (Abs(v) \div SCALE) ELSE v \div SCALE
FitsUi8(v) == TruncToInt(v) >= 0 /\ TruncToInt(v) <= 255
ToUi8(v, u8) ==
    IF FitsUi8(v) THEN TruncToInt(v)
    ELSE IF u8 = "wrap" THEN TruncToInt(v) % 256
    ELSE IF u8 = "max" THEN 255
    ELSE 0

get_ui8(E, k) ==
    [Log(E, "get", k) EXCEPT !.list[k].value = E.target[E.list[k].index],
                             !.list[k].type = TYPE_INTEGER, !.status = SC_OK]

set_ui8(E, k) ==
    LET v == E.list[k].value
        E1 == IF FitsUi8(v) THEN E ELSE Fault(E, "ui8_range")
    IN  [Log(E1, "set", k) EXCEPT !.target[E.list[k].index] = ToUi8(v, E.ub.u8) * SCALE,
                                  !.list[k].type = TYPE_INTEGER, !.status = SC_OK]

\* a get that adds the target to what the node held
get_dbl_adds(E, k) ==
    [Log(E, "get", k) EXCEPT !.list[k].value = @ + E.target[E.list[k].index] + SCALE,
                             !.list[k].type = TYPE_FLOAT, !.status = SC_OK]

get_dbl(E, k) ==
    [Log(E, "get", k) EXCEPT !.list[k].value = E.target[E.list[k].index],
                             !.list[k].type = TYPE_FLOAT, !.status = SC_OK]

set_dbl(E, k) ==
    [Log(E, "set", k) EXCEPT !.target[E.list[k].index] = E.list[k].value,
                             !.list[k].type = TYPE_FLOAT, !.status = SC_OK]

\* the log entry of a cmd_write_NVM_value() call carries the node's value
LogNvm(E, k) ==
    [E EXCEPT !.calls = Append(@, <<"nvm", E.list[k].index, E.list[k].value>>)]

\* a persist that does not look at the entry's flags
cmd_persist_any_flags(E, k) ==
    IF ~index_lt_groups(E.list[k].index) THEN Log(E, "persist", k)
    ELSE LogNvm(Log(E, "persist", k), k)

\* cmd_persist() with persistence compiled in: cmd_write_NVM_value() is
\* reached for a flagged entry at or below the first group index
cmd_persist(E, k) ==
    IF ~index_lt_groups(E.list[k].index) THEN Log(E, "persist", k)
    ELSE IF F_PERSIST \in cfg(E.list[k].index).flags
         THEN LogNvm(Log(E, "persist", k), k)
    ELSE Log(E, "persist", k)

\* cmd_write_NVM_value(cmd) on the memory nv: the read, the comparison and
\* the EEPROM write are commented out, and the function returns SC_OK
cmd_write_NVM_value(nv, index, value) == nv

\* the memory after the cmd_write_NVM_value() calls of the log c, from entry n
RECURSIVE NvmAfter(_, _, _)
NvmAfter(nv, c, n) ==
    IF n > Len(c) THEN nv
    ELSE IF c[n][1] = "nvm"
         THEN NvmAfter(cmd_write_NVM_value(nv, c[n][2], c[n][3]), c, n + 1)
         ELSE NvmAfter(nv, c, n + 1)

\* strcpy(cmd->token, &cmd->token[strlen(cmd->group)])
StripGroup(token, group) == From(token, Len(group) + 1)

RECURSIVE get_grp_from(_, _, _, _)
RECURSIVE set_grp_writes_all(_, _, _)
RECURSIVE set_grp_from(_, _, _)

\* the get bound to the entry of object k
GetAccessor(E, k) ==
    LET kind == cfg(E.list[k].index).kind
    IN  IF kind = "dbl" THEN get_dbl(E, k)
        ELSE IF kind = "ui8" THEN get_ui8(E, k)
        ELSE [get_grp_from([Log(E, "get", k) EXCEPT !.list[k].type = TYPE_PARENT],
                           E.list[k].token, 0, k)
              EXCEPT !.status = SC_OK]

\* cmd_get_cmdObj() on object c, whose index is already set
cmd_get_cmdObj(E, c) ==
    LET i == E.list[c].index
        l0 == cmd_reset_obj(E.list, c)
        g == cfg(i).group
        nostrip == F_NOSTRIP \in cfg(i).flags
        l1 == [l0 EXCEPT ![c].index = i,
                         ![c].group = IF g # <<>> /\ nostrip THEN <<>> ELSE g,
                         ![c].token = IF g # <<>> /\ ~nostrip
                                      THEN StripGroup(cfg(i).token, g)
                                      ELSE cfg(i).token]
    IN  IF i >= CMD_INDEX_MAX THEN E
        ELSE GetAccessor([E EXCEPT !.list = l1], c)

\* a comparison of the first character only
GroupMemberFirstChar(i, parent_group) ==
    cfg(i).group # <<>> /\ At(cfg(i).group, 1) = At(parent_group, 1)

\* a comparison that takes every entry that has a group for a member
GroupMemberAny(i, parent_group) == cfg(i).group # <<>>

\* strcmp(parent_group, group) == 0 for the group of entry i
GroupMember(i, parent_group) == cfg(i).group = parent_group

\* the loop of _get_grp() from registry index i, with cmd at object c
get_grp_from(E, parent_group, i, c) ==
    IF i > CMD_INDEX_END_SINGLES THEN E
    ELSE IF ~GroupMember(i, parent_group) THEN get_grp_from(E, parent_group, i + 1, c)
    ELSE IF c + 1 > CMD_LIST_LEN
         THEN get_grp_from(Fault(E, "list_overrun"), parent_group, i + 1, c + 1)
         ELSE get_grp_from(cmd_get_cmdObj([E EXCEPT !.list[c + 1].index = i], c + 1),
                           parent_group, i + 1, c + 1)

cmd_get(E, k) ==
    IF E.list[k].index >= CMD_INDEX_MAX
    THEN [Log(E, "fail", k) EXCEPT !.status = SC_UNRECOGNIZED_COMMAND]
    ELSE GetAccessor(E, k)

\* the set bound to the entry of object k
SetAccessor(E, k) ==
    LET kind == cfg(E.list[k].index).kind
    IN  IF kind = "dbl" THEN set_dbl(E, k)
        ELSE IF kind = "ui8" THEN set_ui8(E, k)
        ELSE IF comm_mode = TEXT_MODE
             THEN [Log(E, "set", k) EXCEPT !.status = SC_UNRECOGNIZED_COMMAND]
             ELSE [set_grp_from(Log(E, "set", k), k, 0) EXCEPT !.status = SC_OK]

cmd_set(E, k) ==
    IF E.list[k].index >= CMD_INDEX_MAX
    THEN [Log(E, "fail", k) EXCEPT !.status = SC_UNRECOGNIZED_COMMAND]
    ELSE SetAccessor(E, k)

\* a group set that writes every child, whatever its type
set_grp_writes_all(E, c, i) ==
    IF i >= CMD_MAX_OBJECTS THEN E
    ELSE IF c + 1 > CMD_LIST_LEN THEN E
    ELSE IF E.list[c + 1].type = TYPE_EMPTY THEN E
    ELSE set_grp_writes_all(cmd_persist(cmd_set(E, c + 1), c + 1), c + 1, i + 1)

\* the loop of _set_grp() at count i, with cmd at object c
set_grp_from(E, c, i) ==
    IF i >= CMD_MAX_OBJECTS THEN E
    ELSE IF c + 1 > CMD_LIST_LEN THEN E
    ELSE IF E.list[c + 1].type = TYPE_EMPTY THEN E
    ELSE IF E.list[c + 1].type = TYPE_NULL
         THEN set_grp_from(cmd_get(E, c + 1), c + 1, i + 1)
         ELSE set_grp_from(cmd_persist(cmd_set(E, c + 1), c + 1), c + 1, i + 1)

---------------------------------------------------------------------------
(* JSON serializer                                                         *)

Chars(n, c) == [i \in 1..n |-> c]

\* a serializer that writes every number with "%1.0f"
ValueTextWhole(n, pool) ==
    IF n.type = TYPE_NULL THEN <<"\"", "\"">>
    ELSE IF n.type \in {TYPE_INTEGER, TYPE_FLOAT} THEN Fmt_1_0f(n.value)
    ELSE IF n.type = TYPE_STRING THEN <<"\"">> \o StringAt(pool, n.stringp) \o <<"\"">>
    ELSE IF n.type = TYPE_ARRAY THEN <<"[">> \o StringAt(pool, n.stringp) \o <<"]">>
    ELSE IF n.type = TYPE_BOOL
         THEN (IF n.value = 0 THEN <<"f","a","l","s","e">> ELSE <<"t","r","u","e">>)
    ELSE <<"{">>

\* the value text of a node that is not empty
ValueText(n, pool) ==
    IF n.type = TYPE_NULL THEN <<"\"", "\"">>
    ELSE IF n.type = TYPE_INTEGER THEN Fmt_1_0f(n.value)
    ELSE IF n.type = TYPE_FLOAT THEN Fmt_0_3f(n.value)
    ELSE IF n.type = TYPE_STRING THEN <<"\"">> \o StringAt(pool, n.stringp) \o <<"\"">>
    ELSE IF n.type = TYPE_ARRAY THEN <<"[">> \o StringAt(pool, n.stringp) \o <<"]">>
    ELSE IF n.type = TYPE_BOOL
         THEN (IF n.value = 0 THEN <<"f","a","l","s","e">> ELSE <<"t","r","u","e">>)
    ELSE <<"{">>

\* what one pass of the loop writes for node n
NodeText(n, pool, need_a_comma) ==
    IF n.type = TYPE_EMPTY THEN <<>>
    ELSE (IF need_a_comma THEN <<",">> ELSE <<>>)
         \o <<"\"">> \o n.token \o <<"\"", ":">> \o ValueText(n, pool)

\* the closing curly written when the list steps to depth d from prev_depth
LevelClose(d, prev_depth) == IF d < prev_depth THEN <<"}">> ELSE <<>>

\* the loop of js_serialize_json() from node k on
RECURSIVE SerializeFrom(_, _, _, _, _, _)
SerializeFrom(list, pool, k, prev_depth, need_a_comma, initial_depth) ==
    LET n == list[k]
        need1 == IF n.type = TYPE_EMPTY THEN need_a_comma ELSE n.type # TYPE_PARENT
        txt == NodeText(n, pool, need_a_comma)
    IN  IF k = Len(list)
        THEN txt \o Chars(IF prev_depth > initial_depth THEN prev_depth - initial_depth
                          ELSE 0, "}")
                 \o <<"}", "\n">>
        ELSE txt \o LevelClose(list[k + 1].depth, prev_depth)
                 \o SerializeFrom(list, pool, k + 1, list[k + 1].depth,
                                  IF list[k + 1].depth < prev_depth THEN TRUE ELSE need1,
                                  initial_depth)

\* js_serialize_json(cmd, out_buf) with cmd at node k: the text written
js_serialize_json(list, pool, k) ==
    <<"{">> \o SerializeFrom(list, pool, k, 0, FALSE, list[k].depth)

\* a String or Array node whose stringp is NULL is dereferenced by "%s"
NullStringRead(list) ==
    \E k \in 1..Len(list) : list[k].type \in {TYPE_STRING, TYPE_ARRAY}
                            /\ list[k].stringp = NoString

\* cmd_print_list(status, TEXT_*, JSON_RESPONSE_FORMAT): every text print
\* function of the registry is _print_nul
cmd_print_list(list, pool) ==
    IF comm_mode = JSON_MODE THEN js_serialize_json(list, pool, 1) ELSE <<>>

---------------------------------------------------------------------------
(* js_json_parser() and its kernel                                         *)

cmd_group_is_prefixed(group) ==
    group \notin {<<>>, <<"s">>, <<"r">>, <<"s","r">>}

\* cmd_get_index() as one call sees it: idx is what a call whose key
\* overflowed str[] returns, ScanOutcome when it returns what the scan of the
\* key finds
ScanOutcome == 0 - 1
IndexWith(group, token, idx) ==
    IF KeyOverflows(group, token) /\ idx # ScanOutcome THEN idx
    ELSE cmd_get_index(group, token)

Parsed(st, stage, P) == [status |-> st, stage |-> stage, list |-> P.list,
                         pool |-> P.pool, faults |-> P.faults]

\* the do-while loop of _json_parser_kernal(); P is [list, pool, k, p, group, i, faults]
RECURSIVE ParsePairs(_, _, _)
ParsePairs(P, s, ub) ==
    LET \* nv is what _get_nv_pair_strict returned, l1 the list with the
        \* parent's group copied to the node, idx what cmd_get_index returned
        Resolved(nv, l1, idx) ==
            LET tok == l1[P.k].token
                f1 == IF KeyOverflows(l1[P.k].group, tok)
                      THEN nv.faults \cup {"key_overflow"} ELSE nv.faults
                P1 == [P EXCEPT !.list = [l1 EXCEPT ![P.k].index = idx], !.pool = nv.pool,
                                !.faults = f1, !.p = nv.p, !.k = P.k + 1, !.i = P.i - 1,
                                !.group = IF cmd_index_is_group(idx) /\ cmd_group_is_prefixed(tok)
                                          THEN strncpy(tok, CMD_GROUP_LEN) ELSE P.group]
            IN  IF idx = NO_MATCH THEN Parsed(SC_UNRECOGNIZED_COMMAND, "resolve", P1)
                ELSE IF nv.status = SC_OK THEN Parsed(SC_OK, "execute", P1)
                ELSE ParsePairs(P1, s, ub)
        Grouped(nv, l1) ==
            Resolved(nv, l1, IndexWith(l1[P.k].group, l1[P.k].token, ub.idx))
        Read(nv) ==
            IF nv.status > SC_EAGAIN
            THEN Parsed(nv.status, "parse", [P EXCEPT !.list = nv.list, !.pool = nv.pool,
                                                     !.faults = nv.faults])
            ELSE Grouped(nv, IF P.group # <<>>
                             THEN [nv.list EXCEPT ![P.k].group = strncpy(P.group, CMD_GROUP_LEN)]
                             ELSE nv.list)
    IN  IF P.i - 1 = 0 THEN Parsed(SC_JSON_TOO_MANY_PAIRS, "parse", P)
        ELSE Read(get_nv_pair_strict(P.list, P.pool, P.k, s, P.p, P.faults))

\* a parse loop whose counter starts one higher
ParseRequestOneMore(list, pool, str, ub) ==
    LET nz == normalize_json_string(str, JSON_OUTPUT_STRING_MAX)
        P0 == [list |-> list, pool |-> pool, k |-> 2, p |-> 1, group |-> <<>>,
               i |-> CMD_BODY_LEN + 1, faults |-> {}]
    IN  IF nz.status # SC_OK THEN Parsed(nz.status, "normalize", P0)
        ELSE ParsePairs(P0, nz.str, ub)

\* normalization and the parse loop, from a fresh list
ParseRequest(list, pool, str, ub) ==
    LET nz == normalize_json_string(str, JSON_OUTPUT_STRING_MAX)
        P0 == [list |-> list, pool |-> pool, k |-> 2, p |-> 1, group |-> <<>>,
               i |-> CMD_BODY_LEN, faults |-> {}]
    IN  IF nz.status # SC_OK THEN Parsed(nz.status, "normalize", P0)
        ELSE ParsePairs(P0, nz.str, ub)

Exec(list, tgt, f, ub) == [list |-> list, target |-> tgt, calls |-> <<>>,
                           faults |-> f, status |-> SC_OK, ub |-> ub]

\* an execution that takes every request for a set
ExecuteBodyAlwaysSets(E) ==
    LET Set(S) == IF S.status # SC_OK THEN S
                  ELSE [cmd_persist(S, 2) EXCEPT !.status = SC_OK]
    IN  Set(cmd_set(E, 2))

\* "execute the command" on cmd_body
ExecuteBody(E) ==
    LET Set(S) == IF S.status # SC_OK THEN S
                  ELSE [cmd_persist(S, 2) EXCEPT !.status = SC_OK]
    IN  IF E.list[2].type = TYPE_NULL THEN cmd_get(E, 2) ELSE Set(cmd_set(E, 2))

Outcome(st, stage, list, pool, tgt, c, f) ==
    [status |-> st, stage |-> stage, list |-> list, pool |-> pool, target |-> tgt,
     calls |-> c, faults |-> f]

\* a kernel that executes the body before it looks at the parse status
kernal_executes_first(list, pool, tgt, str, ub) ==
    LET Finish(R, X) ==
            IF R.stage = "normalize"
            THEN Outcome(R.status, R.stage, R.list, R.pool, tgt, <<>>, R.faults)
            ELSE IF R.status # SC_OK
            THEN Outcome(R.status, R.stage, X.list, R.pool, X.target, X.calls, X.faults)
            ELSE Outcome(X.status, IF X.status = SC_OK THEN "done" ELSE "execute",
                         X.list, R.pool, X.target, X.calls, X.faults)
        Execute(R) == Finish(R, ExecuteBody(Exec(R.list, tgt, R.faults, ub)))
    IN  Execute(ParseRequest(list, pool, str, ub))

\* _json_parser_kernal(str) on a fresh list: R is the state after the parse
\* loop, X the state after the command ran
json_parser_kernal(list, pool, tgt, str, ub) ==
    LET Finish(R, X) ==
            IF R.status # SC_OK
            THEN Outcome(R.status, R.stage, R.list, R.pool, tgt, <<>>, R.faults)
            ELSE Outcome(X.status, IF X.status = SC_OK THEN "done" ELSE "execute",
                         X.list, R.pool, X.target, X.calls, X.faults)
        Execute(R) == Finish(R, ExecuteBody(Exec(R.list, tgt, R.faults, ub)))
    IN  Execute(ParseRequest(list, pool, str, ub))

---------------------------------------------------------------------------
(* Requests                                                                *)

\* {"fv":null}
GetFv ==
    <<"{","\"","f","v","\"",":","n","u","l","l","}">>
\* {"h1st":""}
GetH1st ==
    <<"{","\"","h","1","s","t","\"",":","\"","\"","}">>
\* {"h1st":2}
SetH1st ==
    <<"{","\"","h","1","s","t","\"",":","2","}">>
\* {"h1st":2.7}
SetH1stFrac ==
    <<"{","\"","h","1","s","t","\"",":","2",".","7","}">>
\* {"h1st":300}
SetH1stBig ==
    <<"{","\"","h","1","s","t","\"",":","3","0","0","}">>
\* {"p1kp":0.1234}
SetP1kp ==
    <<"{","\"","p","1","k","p","\"",":","0",".","1","2","3","4","}">>
\* {"s1tmp":-25.5}
SetS1tmp ==
    <<"{","\"","s","1","t","m","p","\"",":","-","2","5",".","5","}">>
\* {"h1":null}
GetH1 ==
    <<"{","\"","h","1","\"",":","n","u","l","l","}">>
\* {"sys":""}
GetSys ==
    <<"{","\"","s","y","s","\"",":","\"","\"","}">>
\* {"s1":null}
GetS1 ==
    <<"{","\"","s","1","\"",":","n","u","l","l","}">>
\* {"p1":null}
GetP1 ==
    <<"{","\"","p","1","\"",":","n","u","l","l","}">>
\* {"h1":{"st":1,"set":200}}
SetH1Group ==
    <<"{","\"","h","1","\"",":","{","\"","s","t","\"",":","1",",","\"","s","e","t","\"",":","2","0","0","}","}">>
\* {"h1":{"st":null}}
ReadH1Child ==
    <<"{","\"","h","1","\"",":","{","\"","s","t","\"",":","n","u","l","l","}","}">>
\* {"h1":{"tmpxx":1}}
LongChild ==
    <<"{","\"","h","1","\"",":","{","\"","t","m","p","x","x","\"",":","1","}","}">>
\* {"h1":{"tmpx":1}}
LongChildHit ==
    <<"{","\"","h","1","\"",":","{","\"","t","m","p","x","\"",":","1","}","}">>
\* {"zz":1}
Unknown ==
    <<"{","\"","z","z","\"",":","1","}">>
\* {"fv":1,"zz":2}
SecondUnknown ==
    <<"{","\"","f","v","\"",":","1",",","\"","z","z","\"",":","2","}">>
\* {"fv":-}
BadNumber ==
    <<"{","\"","f","v","\"",":","-","}">>
\* {"fv":"abc"}
StringValue ==
    <<"{","\"","f","v","\"",":","\"","a","b","c","\"","}">>
\* { "FV" : NULL }\n
UpperSpaced ==
    <<"{"," ","\"","F","V","\""," ",":"," ","N","U","L","L"," ","}","\n">>
\* a line of JSON_OUTPUT_STRING_MAX + 1 characters
TooLong == <<"{","\"","f","v","\"",":","n","u","l","l">> \o Chars(JSON_OUTPUT_STRING_MAX - 10, " ") \o <<"}">>
\* the same request in a line of exactly JSON_OUTPUT_STRING_MAX characters
LongestLine == <<"{","\"","f","v","\"",":","n","u","l","l">> \o Chars(JSON_OUTPUT_STRING_MAX - 11, " ") \o <<"}">>
\* {"h1":{"st":null,"set":200}}
MixedGroup ==
    <<"{","\"","h","1","\"",":","{","\"","s","t","\"",":","n","u","l","l",",","\"","s","e","t","\"",":","2","0","0","}","}">>
\* {"h1":{"tmpxx":1,"st":2}}
LongChildThen ==
    <<"{","\"","h","1","\"",":","{","\"","t","m","p","x","x","\"",":","1",",","\"","s","t","\"",":","2","}","}">>


JsonInputs ==
    {GetFv, GetH1st, SetH1st, SetH1stFrac, SetH1stBig, SetP1kp, SetS1tmp,
     GetH1, GetSys, GetS1, GetP1, SetH1Group, ReadH1Child, LongChild,
     LongChildHit, Unknown, SecondUnknown, BadNumber, StringValue,
     UpperSpaced, TooLong}

\* lines that are malformed, over-long or carry an array, with a few
\* well-formed ones
\* {"fv":1200,}
TrailingComma ==
    <<"{","\"","f","v","\"",":","1","2","0","0",",","}">>
\* {"x_feedrate":1200,}
TrailingCommaUnknown ==
    <<"{","\"","x","_","f","e","e","d","r","a","t","e","\"",":","1","2","0","0",",","}">>
\* {"h1":{"st":1,}}
TrailingCommaGroup ==
    <<"{","\"","h","1","\"",":","{","\"","s","t","\"",":","1",",","}","}">>
\* {"fv":[1,2]}
ArrayValue ==
    <<"{","\"","f","v","\"",":","[","1",",","2","]","}">>
\* {"fv":1,"hv":[1]}
ArraySecond ==
    <<"{","\"","f","v","\"",":","1",",","\"","h","v","\"",":","[","1","]","}">>
\* {"fv":[1,2,3,4,5,6,7,8,9]}
ArrayLong ==
    <<"{","\"","f","v","\"",":","[","1",",","2",",","3",",","4",",","5",",","6",",","7",",","8",",","9","]","}">>
\* {fv:1}
NoQuotes ==
    <<"{","f","v",":","1","}">>
\* {"fv:1}
OneQuote ==
    <<"{","\"","f","v",":","1","}">>
\* {"fv" 1}
NoColon ==
    <<"{","\"","f","v","\""," ","1","}">>
\* {"fv":"abc}
OpenString ==
    <<"{","\"","f","v","\"",":","\"","a","b","c","}">>

\* "fv":1 n times, with commas between
RECURSIVE PairList(_)
PairList(n) ==
    IF n = 0 THEN <<>>
    ELSE (IF n > 1 THEN PairList(n - 1) \o <<",">> ELSE <<>>)
         \o <<"\"","f","v","\"",":","1">>
\* {"fv":1,"fv":1,...} with n pairs
ManyPairs(n) == <<"{">> \o PairList(n) \o <<"}">>
\* {"fv":1,"hv"
CutInName ==
    <<"{","\"","f","v","\"",":","1",",","\"","h","v">>
\* {"fv":
CutAtValue ==
    <<"{","\"","f","v","\"",":">>
\* {"h1":{"st":1
CutInGroup ==
    <<"{","\"","h","1","\"",":","{","\"","s","t","\"",":","1">>

\* {"h1st":2,"p1kp":1}
TwoSets ==
    <<"{","\"","h","1","s","t","\"",":","2",",","\"","p","1","k","p","\"",":","1","}">>
\* {"h1st":null,"p1kp":null}
TwoGets ==
    <<"{","\"","h","1","s","t","\"",":","n","u","l","l",",",
      "\"","p","1","k","p","\"",":","n","u","l","l","}">>
\* {"p1kp":36000x}
NumberThenLetter ==
    <<"{","\"","p","1","k","p","\"",":","3","6","0","0","0","x","}">>
\* {"h1":{"st":1}
GroupOuterOpen ==
    <<"{","\"","h","1","\"",":","{","\"","s","t","\"",":","1","}">>

JsonLines ==
    {TrailingComma, TrailingCommaUnknown, TrailingCommaGroup, ArrayValue, ArraySecond,
     ArrayLong, NoQuotes, OneQuote, NoColon, OpenString, TooLong, LongestLine,
     SetH1st, GetH1st, SetP1kp, Unknown, SetH1Group, ReadH1Child, MixedGroup,
     LongChildThen, StringValue}

\* lines with few and with too many pairs, truncated lines, and a few others
PairLines ==
    {ManyPairs(2), ManyPairs(CMD_BODY_LEN - 1), ManyPairs(CMD_BODY_LEN),
     ManyPairs(CMD_BODY_LEN + 1), CutInName, CutAtValue, CutInGroup,
     SetH1st, GetH1st, SetP1kp, SetH1Group, Unknown, TooLong, MixedGroup,
     OpenString, TrailingComma, TwoSets, TwoGets, NumberThenLetter,
     GroupOuterOpen}

\* fv
TextGetFv == <<"f","v">>
\* h1st=3
TextSetH1st == <<"h","1","s","t","=","3">>
\* h1
TextGetH1 == <<"h","1">>
\* zz=1
TextUnknown == <<"z","z","=","1">>

TextInputs ==
    {TextGetFv, TextSetH1st, TextGetH1, TextUnknown}

\* h1=3
TextSetGroup ==
    <<"h","1","=","3">>
\* fv=abc
TextSetWord ==
    <<"f","v","=","a","b","c">>
\* fv=
TextSetEmpty ==
    <<"f","v","=">>
\* fv 3
TextSetSpace ==
    <<"f","v"," ","3">>
\* $H1ST=2
TextDollar ==
    <<"$","H","1","S","T","=","2">>
\* p1kp:0.5
TextSetFloat ==
    <<"p","1","k","p",":","0",".","5">>

TextLines ==
    {TextGetFv, TextSetH1st, TextGetH1, TextUnknown, TextSetGroup, TextSetWord,
     TextSetEmpty, TextSetSpace, TextDollar, TextSetFloat}


---------------------------------------------------------------------------
(* cmd_text_parser()                                                       *)

\* the pre-processing loop of _text_parser() from read pointer rd: the text
\* up to the first NUL it writes
RECURSIVE TextLower(_, _)
TextLower(s, rd) ==
    IF rd > Len(s) THEN <<>>
    ELSE IF s[rd] = ","
         THEN (IF rd + 1 > Len(s) THEN <<>>
               ELSE <<s[rd + 1]>> \o TextLower(s, rd + 2))
         ELSE <<tolower(s[rd])>> \o TextLower(s, rd + 1)

\* the loop steps its read pointer over the terminating NUL when a comma is
\* the last character
RECURSIVE TextOverrun(_, _)
TextOverrun(s, rd) ==
    IF rd > Len(s) THEN FALSE
    ELSE IF s[rd] = "," THEN (IF rd + 1 > Len(s) THEN TRUE ELSE TextOverrun(s, rd + 2))
    ELSE TextOverrun(s, rd + 1)

TextSeparators == {" ", "=", ":", "|", "\t"}

\* a text parser that takes whatever follows a separator for a number
text_parser_any_value(list, line_in) ==
    LET body == IF At(line_in, 1) = "$" THEN From(line_in, 2) ELSE line_in
        f == IF TextOverrun(body, 1) THEN {"line_overrun"} ELSE {}
        Found(l1, idx) ==
            [status |-> IF idx = NO_MATCH THEN SC_UNRECOGNIZED_COMMAND ELSE SC_OK,
             list |-> [l1 EXCEPT ![2].index = idx], faults |-> f]
        Look(l1) == Found(l1, cmd_get_index(<<>>, l1[2].token))
        Fill(str, sep, num) ==
            Look([cmd_reset_obj(list, 2) EXCEPT
                    ![2].token = strncpy(IF sep = 0 THEN str ELSE Cut(str, 1, sep),
                                         CMD_TOKEN_LEN),
                    ![2].value = IF sep = 0 THEN 0 ELSE num.value,
                    ![2].type = IF sep # 0 /\ sep < Len(str)
                                THEN TYPE_FLOAT ELSE TYPE_NULL])
        Split(str, sep) == Fill(str, sep, strtod(str, sep + 1))
        Lower(str) == Split(str, strpbrk(str, 1, TextSeparators))
    IN  Lower(TextLower(body, 1))

\* _text_parser(str, cmd) with cmd at cmd_body: [status, list, faults]
text_parser(list, line_in) ==
    LET body == IF At(line_in, 1) = "$" THEN From(line_in, 2) ELSE line_in
        f == IF TextOverrun(body, 1) THEN {"line_overrun"} ELSE {}
        Found(l1, idx) ==
            [status |-> IF idx = NO_MATCH THEN SC_UNRECOGNIZED_COMMAND ELSE SC_OK,
             list |-> [l1 EXCEPT ![2].index = idx], faults |-> f]
        Look(l1) == Found(l1, cmd_get_index(<<>>, l1[2].token))
        \* str is the lower-cased line, sep the first separator, num the value
        Fill(str, sep, num) ==
            Look([cmd_reset_obj(list, 2) EXCEPT
                    ![2].token = strncpy(IF sep = 0 THEN str ELSE Cut(str, 1, sep),
                                         CMD_TOKEN_LEN),
                    ![2].value = IF sep = 0 THEN 0 ELSE num.value,
                    ![2].type = IF sep # 0 /\ num.end # sep + 1
                                THEN TYPE_FLOAT ELSE TYPE_NULL])
        Split(str, sep) == Fill(str, sep, strtod(str, sep + 1))
        Lower(str) == Split(str, strpbrk(str, 1, TextSeparators))
    IN  Lower(TextLower(body, 1))

\* cmd_text_parser(str) on a fresh list; printed tells whether cmd_print_list ran
cmd_text_parser(list, pool, tgt, line_in, ub) ==
    LET Finish(T, X) ==
            IF T.status # SC_OK
            THEN Outcome(T.status, "resolve", T.list, pool, tgt, <<>>, T.faults)
                 @@ [printed |-> FALSE]
            ELSE Outcome(X.status, IF X.status = SC_OK THEN "done" ELSE "execute",
                         X.list, pool, X.target, X.calls, X.faults) @@ [printed |-> TRUE]
        Execute(T, E) ==
            Finish(T, IF T.list[2].type \in {TYPE_PARENT, TYPE_NULL}
                      THEN [cmd_get(E, 2) EXCEPT !.status = SC_OK]
                      ELSE cmd_persist(cmd_set(E, 2), 2))
        Parse(T) == Execute(T, Exec(T.list, tgt, T.faults, ub))
    IN  Parse(text_parser(list, line_in))

---------------------------------------------------------------------------
(* The program: requests arrive one at a time from the main loop           *)

MaxRequests == 2
MaxGets == 2

\* what the undefined operations of one request yield
BenignUb == [idx |-> ScanOutcome, u8 |-> "wrap"]
\* an overflowed cmd_get_index() can return anything: the model keeps what
\* the scan finds, NO_MATCH, one index of each kind of entry, and one value
\* past the table that is not NO_MATCH
UbIndexes == {ScanOutcome, NO_MATCH, 0, CMD_INDEX_END_SINGLES - 1,
              CMD_INDEX_START_GROUPS + 1, CMD_INDEX_MAX}
UbBytes == {"wrap", "max", "zero"}
UbFor(found) ==
    [idx : IF "key_overflow" \in found THEN UbIndexes ELSE {ScanOutcome},
     u8 : IF "ui8_range" \in found THEN UbBytes ELSE {"wrap"}]

ReadFaults(list) ==
    IF comm_mode = JSON_MODE /\ NullStringRead(list) THEN {"null_stringp"} ELSE {}

\* js_json_parser(str), for a line of the set lines; op and n say which
\* caller of the model made the request
JsonRun(lines, op, n) ==
    /\ nreq < MaxRequests
    /\ \E x \in lines :
        LET l0 == cmd_reset_list(cmd_list)
            p0 == [cmdStr EXCEPT !.wp = 0]
        IN  \E R0 \in {json_parser_kernal(l0, p0, target, x, BenignUb)} :
             \E ub \in UbFor(R0.faults) :
              \E R \in {IF ub = BenignUb THEN R0
                         ELSE json_parser_kernal(l0, p0, target, x, ub)} :
                  /\ line' = x
                  /\ target' = R.target
                  /\ cmd_list' = R.list
                  /\ cmdStr' = R.pool
                  /\ status' = R.status
                  /\ calls' = R.calls
                  /\ nvm' = NvmAfter(nvm, R.calls, 1)
                  /\ faults' = R.faults \cup ReadFaults(R.list)
                  /\ out_buf' = cmd_print_list(R.list, R.pool)
                  /\ probe' = [op |-> op, stage |-> R.stage, n |-> n]
    /\ old_target' = target
    /\ nreq' = nreq + 1
    /\ UNCHANGED <<comm_mode, hw>>

JsonRequestFrom(lines) == JsonRun(lines, "json", 0) /\ UNCHANGED rx

JsonRequest == JsonRequestFrom(JsonInputs)

\* cmd_text_parser(str), for a line of the set lines
TextRequestFrom(lines) ==
    /\ nreq < MaxRequests
    /\ \E x \in lines :
        LET l0 == cmd_reset_list(cmd_list)
            p0 == [cmdStr EXCEPT !.wp = 0]
        IN  \E R0 \in {cmd_text_parser(l0, p0, target, x, BenignUb)} :
             \E ub \in UbFor(R0.faults) :
              \E R \in {IF ub = BenignUb THEN R0
                         ELSE cmd_text_parser(l0, p0, target, x, ub)} :
                  /\ line' = x
                  /\ target' = R.target
                  /\ cmd_list' = R.list
                  /\ cmdStr' = R.pool
                  /\ status' = R.status
                  /\ calls' = R.calls
                  /\ nvm' = NvmAfter(nvm, R.calls, 1)
                  /\ faults' = R.faults \cup (IF R.printed THEN ReadFaults(R.list) ELSE {})
                  /\ out_buf' = IF R.printed THEN cmd_print_list(R.list, R.pool) ELSE <<>>
                  /\ probe' = [op |-> "text", stage |-> R.stage, n |-> 0]
    /\ old_target' = target
    /\ nreq' = nreq + 1
    /\ UNCHANGED <<comm_mode, hw, rx>>

TextRequest == TextRequestFrom(TextInputs)

\* cmd_get(cmd_body) called again on the node as the last operation left it
CmdGet ==
    /\ probe.n < MaxGets
    /\ \E G \in {cmd_get(Exec(cmd_list, target, {}, BenignUb), 2)} :
           /\ cmd_list' = G.list
           /\ status' = G.status
           /\ calls' = G.calls
           /\ faults' = G.faults
    /\ probe' = [op |-> "get", stage |-> "done", n |-> probe.n + 1]
    /\ old_target' = target
    /\ UNCHANGED <<target, cmdStr, comm_mode, line, out_buf, nreq, nvm, hw, rx>>

Next == JsonRequest \/ TextRequest \/ CmdGet

Spec == InitProgram /\ [][Next]_vars

\* the program fed with the malformed and the text lines
JsonLine == JsonRequestFrom(JsonLines)
TextLine == TextRequestFrom(TextLines)
NextLines == JsonLine \/ TextLine
SpecLines == InitProgram /\ [][NextLines]_vars

\* the program fed with the lines of many pairs and the truncated lines
JsonPairs == JsonRequestFrom(PairLines)
NextPairs == JsonPairs
SpecPairs == InitProgram /\ [][NextPairs]_vars

\* {"h1setpoint":100}
LongName ==
    <<"{","\"","h","1","s","e","t","p","o","i","n","t","\"",":","1","0","0","}">>
\* {"fvx":null}
LongerByOne ==
    <<"{","\"","f","v","x","\"",":","n","u","l","l","}">>
\* h1setpoint=100
TextLongName ==
    <<"h","1","s","e","t","p","o","i","n","t","=","1","0","0">>
\* fv,
TextEndsInComma ==
    <<"f","v",",">>
\* h1st=3,
TextSetEndsInComma ==
    <<"h","1","s","t","=","3",",">>
\* h1,st=3
TextCommaInside ==
    <<"h","1",",","s","t","=","3">>

NameLines == {LongName, LongerByOne, SetH1st, GetH1st, SetP1kp, SetH1Group, Unknown}
TextNameLines ==
    {TextLongName, TextEndsInComma, TextSetEndsInComma, TextCommaInside,
     TextSetH1st, TextGetFv, TextUnknown, TextDollar, TextSetFloat}

\* the program fed with names longer than a token and with lines of commas
JsonNames == JsonRequestFrom(NameLines)
TextNames == TextRequestFrom(TextNameLines)
NextNames == JsonNames \/ TextNames
SpecNames == InitProgram /\ [][NextNames]_vars

---------------------------------------------------------------------------
(* Direct calls of the gateways cmd_set(), cmd_get(), cmd_print() and      *)
(* cmd_persist() on the first body node, with any index a caller can hold: *)
(* every index of the table, the first two past it, and NO_MATCH           *)

GatewayIndexes == 0..(CMD_INDEX_MAX + 1) \cup {NO_MATCH}
GatewayValues == {SCALE, 2 * SCALE}
\* the indexes cmd_set() is called with: a flagged double, a byte, a group
\* and the ones outside the table
SetIndexes == {1, 3, CMD_INDEX_START_GROUPS, CMD_INDEX_MAX, CMD_INDEX_MAX + 1, NO_MATCH}

\* what the call through a function pointer read from beyond the table does
WildCalls == {"returns", "runs"}

\* cmd_print(): the index check is commented out; every entry of the table
\* has _print_nul, which prints nothing
cmd_print(E, k, wild) ==
    IF E.list[k].index >= CMD_INDEX_MAX
    THEN IF wild = "runs" THEN Log(Fault(E, "table_overrun"), "wild", k)
         ELSE Fault(E, "table_overrun")
    ELSE Log(E, "print", k)

\* the first body node as a caller fills it for entry i
NodeFor(list, i, v, ty) ==
    [cmd_reset_list(list) EXCEPT ![2].index = i, ![2].value = v, ![2].type = ty,
                                 ![2].token = IF i < CMD_INDEX_MAX THEN cfg(i).token
                                              ELSE <<>>]

\* the state after a gateway returned the execution state G
Returned(fn, i, G) ==
    /\ target' = G.target
    /\ cmd_list' = G.list
    /\ calls' = G.calls
    /\ faults' = G.faults
    /\ nvm' = NvmAfter(nvm, G.calls, 1)
    /\ probe' = [op |-> fn, stage |-> "done", n |-> 0, index |-> i]
    /\ old_target' = target
    /\ nreq' = nreq + 1
    /\ UNCHANGED <<cmdStr, comm_mode, line, out_buf, hw, rx>>

CallSet ==
    /\ nreq < MaxRequests
    /\ \E i \in SetIndexes, v \in GatewayValues :
         \E G \in {cmd_set(Exec(NodeFor(cmd_list, i, v, TYPE_FLOAT), target, {}, BenignUb), 2)} :
             Returned("cmd_set", i, G) /\ status' = G.status

CallGet ==
    /\ nreq < MaxRequests
    /\ \E i \in GatewayIndexes :
         \E G \in {cmd_get(Exec(NodeFor(cmd_list, i, 0, TYPE_NULL), target, {}, BenignUb), 2)} :
             Returned("cmd_get", i, G) /\ status' = G.status

CallPrint ==
    /\ nreq < MaxRequests
    /\ \E i \in GatewayIndexes, v \in GatewayValues, w \in WildCalls :
         \E G \in {cmd_print(Exec(NodeFor(cmd_list, i, v, TYPE_FLOAT), target, {}, BenignUb), 2, w)} :
             Returned("cmd_print", i, G) /\ UNCHANGED status

CallPersist ==
    /\ nreq < MaxRequests
    /\ \E i \in GatewayIndexes, v \in GatewayValues :
         \E G \in {cmd_persist(Exec(NodeFor(cmd_list, i, v, TYPE_FLOAT), target, {}, BenignUb), 2)} :
             Returned("cmd_persist", i, G) /\ UNCHANGED status

NextGateway == CallSet \/ CallGet \/ CallPrint \/ CallPersist

SpecGateway == InitProgram /\ [][NextGateway]_vars

---------------------------------------------------------------------------
(* heater_on(), heater_off(), heater_callback(), pid_calculate() and the   *)
(* sensor, on the memory M = [t |-> target, h |-> hw]                      *)

\* a byte of the registry, as the code reads it
ByteOf(M, i) == M.t[i] \div SCALE
\* a signed byte: heater.hysteresis is an int8_t
ToInt8(v) == IF v > 127 THEN v - 256 ELSE v
\* the product of two fixed-point numbers, each taken to two decimals
Mul(a, b) == (a \div 100) * (b \div 100)
Fabs(x) == IF x < 0 THEN 0 - x ELSE x

\* the device call name is logged in hw.ops
Op(M, name) == [M EXCEPT !.h.ops = Append(@, name)]

sensor_on(M) == [Op(M, "sensor_on") EXCEPT !.t[sensor_state] = SENSOR_NO_DATA * SCALE]
sensor_off(M) == [Op(M, "sensor_off") EXCEPT !.t[sensor_state] = SENSOR_OFF * SCALE]
sensor_start_reading(M) ==
    [Op(M, "sensor_start_reading") EXCEPT !.h.sensor_code = SENSOR_TAKING_READING]
sensor_get_temperature(M) ==
    IF ByteOf(M, sensor_state) = SENSOR_HAS_DATA THEN M.t[sensor_temperature]
    ELSE LESS_THAN_ZERO

pwm_set_duty(M, duty) == [Op(M, "pwm_set_duty") EXCEPT !.h.pwm_duty = duty]
pwm_on(M, freq, duty) == pwm_set_duty([M EXCEPT !.h.pwm_freq = freq], duty)
pwm_off(M) == pwm_on(Op(M, "pwm_off"), 0, 0)

pid_reset(M) ==
    [M EXCEPT !.h.pid_output = 0, !.h.pid_integral = PID_INITIAL_INTEGRAL,
              !.h.pid_prev_error = 0]

\* pid_calculate(): the memory after the call; the value returned is
\* PidReturn of it
pid_calculate(M, setpoint, temperature) ==
    IF M.h.pid_state = PID_OFF THEN M
    ELSE LET err == setpoint - temperature
             integral == IF Fabs(err) > PID_EPSILON /\ M.h.pid_output < M.t[pid_output_max]
                         THEN M.h.pid_integral + err \div 10
                         ELSE M.h.pid_integral
             derivative == (err - M.h.pid_prev_error) * 10
             raw == Mul(M.t[pid_Kp], err) + Mul(M.t[pid_Ki], integral)
                    + Mul(M.t[pid_Kd], derivative)
             output == IF raw > M.t[pid_output_max] THEN M.t[pid_output_max]
                       ELSE IF raw < M.t[pid_output_min] THEN M.t[pid_output_min]
                       ELSE raw
         IN  [M EXCEPT !.h.pid_error = err, !.h.pid_integral = integral,
                       !.h.pid_derivative = derivative, !.h.pid_output = output,
                       !.h.pid_prev_error = err]
PidReturn(M0, M1) == IF M0.h.pid_state = PID_OFF THEN M0.t[pid_output_min] ELSE M1.h.pid_output

heater_on(M, setpoint) ==
    IF ByteOf(M, heater_state) \in {HEATER_HEATING, HEATER_REGULATED} THEN M
    ELSE [pwm_on(pid_reset(sensor_start_reading(sensor_on(M))), PWM_FREQUENCY, 0)
             EXCEPT !.t[heater_setpoint] = setpoint,
                    !.t[heater_hysteresis] = 0,
                    !.h.bad_reading_count = 0,
                    !.h.regulation_timer = 0,
                    !.t[heater_state] = HEATER_HEATING * SCALE]

heater_off(M, state, code) ==
    [sensor_off(pwm_off(M)) EXCEPT !.t[heater_state] = state * SCALE, !.h.code = code]

\* a regulation part that turns the heater off when it falls out of
\* regulation
Regulation_turns_off(M) ==
    LET hy == ToInt8(ByteOf(M, heater_hysteresis))
    IN  IF Fabs(M.h.pid_error) <= M.t[heater_regulation_range]
        THEN IF hy + 1 > HEATER_HYSTERESIS
             THEN [M EXCEPT !.t[heater_hysteresis] = HEATER_HYSTERESIS * SCALE,
                            !.t[heater_state] = HEATER_REGULATED * SCALE]
             ELSE [M EXCEPT !.t[heater_hysteresis] = ((hy + 1) % 256) * SCALE]
        ELSE IF hy - 1 <= 0
             THEN [M EXCEPT !.t[heater_hysteresis] = 0,
                            !.h.regulation_timer = 0,
                            !.t[heater_state] = HEATER_OFF * SCALE]
             ELSE [M EXCEPT !.t[heater_hysteresis] = (hy - 1) * SCALE]

\* "Manage regulation state": the hysteresis register and the state
Regulation(M) ==
    LET hy == ToInt8(ByteOf(M, heater_hysteresis))
    IN  IF Fabs(M.h.pid_error) <= M.t[heater_regulation_range]
        THEN IF hy + 1 > HEATER_HYSTERESIS
             THEN [M EXCEPT !.t[heater_hysteresis] = HEATER_HYSTERESIS * SCALE,
                            !.t[heater_state] = HEATER_REGULATED * SCALE]
             ELSE [M EXCEPT !.t[heater_hysteresis] = ((hy + 1) % 256) * SCALE]
        ELSE IF hy - 1 <= 0
             THEN [M EXCEPT !.t[heater_hysteresis] = 0,
                            !.h.regulation_timer = 0,
                            !.t[heater_state] = HEATER_HEATING * SCALE]
             ELSE [M EXCEPT !.t[heater_hysteresis] = (hy - 1) * SCALE]

\* the LED part: the toggle counter runs while the heater is not regulated
Indicator(M) ==
    IF ByteOf(M, heater_state) = HEATER_REGULATED THEN M
    ELSE [M EXCEPT !.h.toggle = IF (@ + 1) % 256 > 3 THEN 0 ELSE (@ + 1) % 256]

\* "handle HEATER exceptions" and the parts of the callback that follow it
HeatingExceptions(M) ==
    IF ByteOf(M, heater_state) # HEATER_HEATING THEN Indicator(Regulation(M))
    ELSE LET M1 == [M EXCEPT !.h.regulation_timer = @ + HEATER_TICK_SECONDS]
         IN  IF /\ M1.t[heater_temperature] < M1.t[heater_ambient_temperature]
                /\ M1.h.regulation_timer > M1.t[heater_ambient_timeout]
             THEN heater_off(M1, HEATER_SHUTDOWN, HEATER_AMBIENT_TIMED_OUT)
             ELSE IF /\ M1.t[heater_temperature] < M1.t[heater_setpoint]
                     /\ M1.h.regulation_timer > M1.t[heater_regulation_timeout]
             THEN heater_off(M1, HEATER_SHUTDOWN, HEATER_REGULATION_TIMED_OUT)
             ELSE Indicator(Regulation(M1))

\* the callback from the PID step on, with a good reading in place
Regulate(M) ==
    LET M1 == [M EXCEPT !.h.bad_reading_count = 0]
        M2 == pid_calculate(M1, M1.t[heater_setpoint], M1.t[heater_temperature])
    IN  HeatingExceptions(pwm_set_duty(M2, PidReturn(M1, M2)))

\* an overheat trap that lets the temperature reach the limit plus a degree
Overheated_late(M) ==
    M.t[heater_temperature] > M.t[heater_overheat_temperature] + 100 * SCALE

\* "trap overheat condition"
Overheated(M) == M.t[heater_temperature] > M.t[heater_overheat_temperature]

heater_callback(M0) ==
    IF ByteOf(M0, heater_state) \in {HEATER_OFF, HEATER_SHUTDOWN} THEN M0
    ELSE LET M == [M0 EXCEPT !.t[heater_temperature] = sensor_get_temperature(M0)]
         IN  IF Overheated(M) THEN heater_off(M, HEATER_SHUTDOWN, HEATER_OVERHEATED)
             ELSE LET M1 == sensor_start_reading(M)
                      M2 == [M1 EXCEPT !.h.bad_reading_count = (@ + 1) % 256]
                  IN  IF M1.t[heater_temperature] < ABSOLUTE_ZERO
                      THEN IF M2.h.bad_reading_count > ByteOf(M2, heater_bad_reading_max)
                           THEN heater_off(M2, HEATER_SHUTDOWN, HEATER_SENSOR_ERROR)
                           ELSE M2
                      ELSE Regulate(M1)

\* sensor_callback() at the sample that completes a reading: r.mean is the
\* mean of the samples kept, r.noisy says that their deviation is above
\* reading_variance_max
sensor_callback(M, rd) ==
    IF ByteOf(M, sensor_state) = SENSOR_OFF \/ M.h.sensor_code # SENSOR_TAKING_READING
    THEN M
    ELSE IF rd.noisy
    THEN [M EXCEPT !.t[sensor_state] = SENSOR_ERROR * SCALE,
                   !.h.sensor_code = SENSOR_ERROR_BAD_READINGS]
    ELSE IF rd.mean > SENSOR_DISCONNECTED_TEMPERATURE
    THEN [M EXCEPT !.t[sensor_temperature] = rd.mean,
                   !.t[sensor_state] = SENSOR_ERROR * SCALE,
                   !.h.sensor_code = SENSOR_ERROR_DISCONNECTED]
    ELSE IF rd.mean < SENSOR_NO_POWER_TEMPERATURE
    THEN [M EXCEPT !.t[sensor_temperature] = rd.mean,
                   !.t[sensor_state] = SENSOR_ERROR * SCALE,
                   !.h.sensor_code = SENSOR_ERROR_NO_POWER]
    ELSE [M EXCEPT !.t[sensor_temperature] = rd.mean,
                   !.t[sensor_state] = SENSOR_HAS_DATA * SCALE,
                   !.h.sensor_code = SENSOR_IDLE]

---------------------------------------------------------------------------
(* The heater under the 100 ms tick: tick_callback() runs sensor_callback() *)
(* every millisecond and heater_callback() every hundredth, so a reading   *)
(* that was started completes before the next heater_callback().  The      *)
(* sensor delivers the readings of a profile: t1 for the first at          *)
(* readings, t2 from then on.                                              *)

MaxTicks == 22

Good(t) == [noisy |-> FALSE, mean |-> t * SCALE]
Noisy == [noisy |-> TRUE, mean |-> 0]
\* cold, within the regulation range of 160, overheated, disconnected, noisy
Readings == {Good(20), Good(158), Good(301), Good(401), Noisy}
SwitchAt == {1, 11, 12}
Setpoints == {160 * SCALE, 20 * SCALE}
\* what the host writes before the heater is started: a short ambient
\* timeout, or the state itself
HeaterSettings ==
    {<<heater_ambient_timeout, 3 * HEATER_TICK_SECONDS>>,
     <<heater_state, HEATER_REGULATED * SCALE>>}

ReadingNo(k) == IF k <= probe.at THEN probe.t1 ELSE probe.t2
ReadingDue == hw.sensor_code = SENSOR_TAKING_READING
                 /\ target[sensor_state] # SENSOR_OFF * SCALE
Mem == [t |-> target, h |-> [hw EXCEPT !.ops = <<>>]]

\* the heater is HEATING and the sensor holds a valid reading below
\* ambient_temperature; probe.cold counts the successive callbacks that
\* started so
ColdWhileHeating(M) ==
    /\ ByteOf(M, heater_state) = HEATER_HEATING
    /\ sensor_get_temperature(M) >= ABSOLUTE_ZERO
    /\ sensor_get_temperature(M) < M.t[heater_ambient_temperature]

HeaterFrame == UNCHANGED <<cmdStr, comm_mode, line, out_buf, nvm, rx, status, calls, faults>>

InitHeater ==
    /\ target = InitTarget
    /\ cmd_list = cmd_reset_list([k \in 1..CMD_LIST_LEN |-> ZeroObj])
    /\ cmdStr = ZeroPool
    /\ comm_mode = JSON_MODE
    /\ line = <<>>
    /\ status = SC_OK
    /\ out_buf = <<>>
    /\ calls = <<>>
    /\ old_target = InitTarget
    /\ faults = {}
    /\ nreq = 0
    /\ nvm = InitNvm
    /\ hw = InitHw
    /\ rx = InitRx
    /\ probe \in [op : {"start"}, stage : {"done"}, n : {0}, cold : {0},
                   t1 : Readings, t2 : Readings, at : SwitchAt]

\* cmd_set() of a heater setting, before anything else has run
HeaterConfig ==
    /\ probe.op = "start"
    /\ \E c \in HeaterSettings :
         \E G \in {cmd_set(Exec(NodeFor(cmd_list, c[1], c[2], TYPE_FLOAT), target, {},
                                BenignUb), 2)} :
             /\ target' = G.target
             /\ cmd_list' = G.list
    /\ probe' = [probe EXCEPT !.op = "cmd_set"]
    /\ old_target' = target
    /\ UNCHANGED <<hw, nreq>>
    /\ HeaterFrame

HeaterOn ==
    /\ nreq < MaxTicks
    /\ target[heater_state] \notin {HEATER_HEATING * SCALE, HEATER_REGULATED * SCALE}
    /\ \E sp \in Setpoints :
         \E M \in {heater_on(Mem, sp)} :
             /\ target' = M.t
             /\ hw' = M.h
    /\ probe' = [probe EXCEPT !.op = "heater_on", !.cold = 0]
    /\ old_target' = target
    /\ UNCHANGED <<cmd_list, nreq>>
    /\ HeaterFrame

SensorCallback ==
    /\ ReadingDue
    /\ probe.n < MaxTicks
    /\ \E M \in {sensor_callback(Mem, ReadingNo(probe.n + 1))} :
          /\ target' = M.t
          /\ hw' = M.h
    /\ probe' = [probe EXCEPT !.op = "sensor_callback", !.n = @ + 1]
    /\ old_target' = target
    /\ UNCHANGED <<cmd_list, nreq>>
    /\ HeaterFrame

HeaterCallback ==
    /\ nreq < MaxTicks
    /\ ~ReadingDue
    /\ target[heater_state] \notin {HEATER_OFF * SCALE, HEATER_SHUTDOWN * SCALE}
    /\ \E M \in {heater_callback(Mem)} :
          /\ target' = M.t
          /\ hw' = M.h
    /\ probe' = [probe EXCEPT !.op = "heater_callback",
                              !.cold = IF ColdWhileHeating(Mem) THEN @ + 1 ELSE 0]
    /\ old_target' = target
    /\ nreq' = nreq + 1
    /\ UNCHANGED cmd_list
    /\ HeaterFrame

NextHeater == HeaterConfig \/ HeaterOn \/ SensorCallback \/ HeaterCallback

SpecHeater == InitHeater /\ [][NextHeater]_vars

---------------------------------------------------------------------------
(* Reading requests and responses as name:value pairs                      *)

\* the first name:value pair of a text without whitespace
ReadPair(t) ==
    LET q1 == strchr(t, 1, "\"")
        q2 == IF q1 = 0 THEN 0 ELSE strchr(t, q1 + 1, "\"")
        co == IF q2 = 0 THEN 0 ELSE strchr(t, q2 + 1, ":")
        v == co + 1
        ch == At(t, v)
        q4 == strchr(t, v + 1, "\"")
        kind == IF co = 0 THEN "none"
                ELSE IF ch = "n" THEN "null"
                ELSE IF ch = "\"" /\ q4 # 0 THEN "string"
                ELSE IF ch \in DigitSet \/ ch = "-" THEN "number"
                ELSE IF ch = "t" THEN "true"
                ELSE IF ch = "f" THEN "false"
                ELSE IF ch = "{" THEN "object"
                ELSE "none"
    IN  [name |-> IF q2 = 0 THEN <<>> ELSE Cut(t, q1 + 1, q2),
         kind |-> kind,
         num |-> IF kind = "number" THEN strtod(t, v).value ELSE 0,
         text |-> IF kind = "string" THEN Cut(t, v + 1, q4) ELSE <<>>]

IsNullValue(rp) == rp.kind = "null" \/ (rp.kind = "string" /\ rp.text = <<>>)

Count(t, c) == Cardinality({i \in 1..Len(t) : t[i] = c})

\* the pair a JSON request line carries
RequestPair == ReadPair(Normalized(line))
\* the pair inside the "r" object of the response
ResponsePair == ReadPair(From(out_buf, 7))

SingleValued(i) == i \in DOMAIN target
GroupIndexes == CMD_INDEX_START_GROUPS..(CMD_INDEX_MAX - 1)

\* the single-valued entries of the group of entry gi, in registry order
GroupMembersOf(gi) ==
    SelectSeq([n \in 1..CMD_INDEX_END_SINGLES |-> n - 1],
              LAMBDA i : cfg(i).group = cfg(gi).token)

\* the text the response gives a value of entry i
Rendered(i, v) == IF cfg(i).kind = "ui8" THEN Fmt_1_0f(v) ELSE Fmt_0_3f(v)

ResponseHead == <<"{", "\"", "r", "\"", ":", "{">>

\* the response to a read of the single-valued entry i
ExpectedRead(i) ==
    ResponseHead \o <<"\"">> \o cfg(i).token \o <<"\"", ":">>
    \o Rendered(i, target[i]) \o <<"}", "}", "\n">>

RECURSIVE ChildrenText(_, _)
ChildrenText(gi, members) ==
    IF members = <<>> THEN <<>>
    ELSE <<"\"">> \o StripGroup(cfg(Head(members)).token,
                                IF F_NOSTRIP \in cfg(Head(members)).flags
                                THEN <<>> ELSE cfg(gi).token)
         \o <<"\"", ":">> \o Rendered(Head(members), target[Head(members)])
         \o (IF Len(members) > 1 THEN <<",">> ELSE <<>>)
         \o ChildrenText(gi, Tail(members))

\* the response to a read of the group entry gi
ExpectedGroupRead(gi) ==
    ResponseHead \o <<"\"">> \o cfg(gi).token \o <<"\"", ":", "{">>
    \o ChildrenText(gi, GroupMembersOf(gi)) \o <<"}", "}", "}", "\n">>

---------------------------------------------------------------------------
(* Calls of cmd_copy_string() between resets of the list                   *)

MaxCopies == 4

\* strings that fit the pool several times over, once, with no room for the
\* terminator, and not at all
PoolStrings ==
    {<<>>, <<"a">>, <<"b", "b">>, Chars(5, "c"), Chars(CMD_SHARED_STRING_LEN - 1, "d"),
     Chars(CMD_SHARED_STRING_LEN, "e"), Chars(CMD_SHARED_STRING_LEN + 1, "f")}

\* cmd_copy_string(cmd_body, src)
CopyString ==
    /\ nreq < MaxCopies
    /\ \E src \in PoolStrings :
          \E r \in {cmd_copy_string(cmdStr, src)} :
              /\ cmdStr' = r.pool
              /\ status' = r.status
              /\ cmd_list' = IF r.status = SC_OK
                             THEN [cmd_list EXCEPT ![2].stringp = r.stringp]
                             ELSE cmd_list
              /\ faults' = IF r.overrun THEN faults \cup {"pool_overrun"} ELSE faults
              /\ probe' = [op |-> "cmd_copy_string", src |-> src]
    /\ nreq' = nreq + 1
    /\ old_target' = target
    /\ UNCHANGED <<target, comm_mode, line, out_buf, calls, nvm, hw, rx>>

\* cmd_reset_list()
ResetList ==
    /\ nreq < MaxCopies
    /\ probe.op = "cmd_copy_string"
    /\ cmd_list' = cmd_reset_list(cmd_list)
    /\ cmdStr' = [cmdStr EXCEPT !.wp = 0]
    /\ faults' = {}
    /\ probe' = [op |-> "cmd_reset_list", src |-> <<>>]
    /\ nreq' = nreq + 1
    /\ old_target' = target
    /\ UNCHANGED <<target, comm_mode, line, out_buf, calls, nvm, hw, rx, status>>

NextPool == CopyString \/ ResetList
SpecPool == InitProgram /\ [][NextPool]_vars

---------------------------------------------------------------------------
(* The USART line reader and _dispatch()                                   *)

\* rx.wire: the characters still to arrive; rx.q: the characters of the RX
\* ring between tail and head, oldest first; rx.buf: the characters of
\* kc.in_buf below rx.len; rx.ret: what the last xio_gets() returned;
\* rx.overran: buf[size] has been written

RX_BUFFER_SIZE == 128
\* sizeof(kc.in_buf)
InBufSize == 12
LF == "\n"
CR == "\r"

\* ISR(USART_RX_vect) for character c: the ring holds RX_BUFFER_SIZE - 2
\* characters, a character that finds it full is tossed
RxIsrChar(r, c) ==
    IF Len(r.q) < RX_BUFFER_SIZE - 2 THEN [r EXCEPT !.q = Append(@, c)] ELSE r

\* a helper that ends the line in progress when the overrun is at its end
RECURSIVE GetsLoopEndsLine(_)
GetsLoopEndsLine(r) ==
    IF r.q = <<>> THEN [r EXCEPT !.ret = "XIO_EAGAIN"]
    ELSE LET c == Head(r.q)
             r1 == [r EXCEPT !.q = Tail(@)]
         IN  IF r1.len >= InBufSize
             THEN [r1 EXCEPT !.signal = "XIO_SIG_EOL", !.overran = TRUE,
                             !.flag_in_line = (c \notin {CR, LF}),
                             !.ret = "XIO_BUFFER_FULL_NON_FATAL"]
             ELSE IF c \in {CR, LF}
             THEN [r1 EXCEPT !.len = @ + 1, !.signal = "XIO_SIG_EOL",
                             !.flag_in_line = FALSE, !.ret = "XIO_OK"]
             ELSE GetsLoopEndsLine([r1 EXCEPT !.buf = Append(@, c), !.len = @ + 1])

\* the loop of xio_gets_usart() over _gets_helper()
RECURSIVE GetsLoop(_)
GetsLoop(r) ==
    IF r.q = <<>> THEN [r EXCEPT !.ret = "XIO_EAGAIN"]
    ELSE LET c == Head(r.q)
             r1 == [r EXCEPT !.q = Tail(@)]
         IN  IF r1.len >= InBufSize
             THEN [r1 EXCEPT !.signal = "XIO_SIG_EOL", !.overran = TRUE,
                             !.ret = "XIO_BUFFER_FULL_NON_FATAL"]
             ELSE IF c \in {CR, LF}
             THEN [r1 EXCEPT !.len = @ + 1, !.signal = "XIO_SIG_EOL",
                             !.flag_in_line = FALSE, !.ret = "XIO_OK"]
             ELSE GetsLoop([r1 EXCEPT !.buf = Append(@, c), !.len = @ + 1])

\* xio_gets_usart(d, kc.in_buf, sizeof(kc.in_buf))
xio_gets_usart(r) ==
    GetsLoop(IF r.flag_in_line THEN r
             ELSE [r EXCEPT !.flag_in_line = TRUE, !.len = 0, !.buf = <<>>,
                            !.signal = "XIO_SIG_OK"])

\* {"h1st":null}
LineTooLong ==
    <<"{","\"","h","1","s","t","\"",":","n","u","l","l","}">>
\* {"hv":1}
SetHv ==
    <<"{","\"","h","v","\"",":","1","}">>

\* what arrives on the wire: lines that fit, and a line longer than the
\* buffer before a line that fits, after one, and alone
WireScripts ==
    {LineTooLong \o <<LF>> \o GetFv \o <<LF>>,
     GetFv \o <<LF>> \o SetHv \o <<CR>>,
     SetHv \o <<LF>> \o LineTooLong \o <<LF>> \o GetFv \o <<LF>>,
     LineTooLong \o <<LF>>}

InitReader ==
    /\ target = InitTarget
    /\ cmd_list = cmd_reset_list([k \in 1..CMD_LIST_LEN |-> ZeroObj])
    /\ cmdStr = ZeroPool
    /\ comm_mode = JSON_MODE
    /\ line = <<>>
    /\ status = SC_OK
    /\ out_buf = <<>>
    /\ calls = <<>>
    /\ old_target = InitTarget
    /\ faults = {}
    /\ nreq = 0
    /\ nvm = InitNvm
    /\ hw = InitHw
    /\ rx \in {[InitRx EXCEPT !.wire = w] : w \in WireScripts}
    /\ probe = NoProbe

\* a character arrives and the receive interrupt runs
RxIsr ==
    /\ rx.wire # <<>>
    /\ rx' = RxIsrChar([rx EXCEPT !.wire = Tail(@)], Head(rx.wire))
    /\ UNCHANGED <<target, cmd_list, cmdStr, comm_mode, line, status, out_buf,
                   calls, old_target, faults, nreq, nvm, hw, probe>>

\* _dispatch(): the line reader, and the JSON parser when it returned a line
Dispatch ==
    \E g \in {xio_gets_usart(rx)} :
        /\ rx' = g
        /\ IF g.ret = "XIO_OK"
           THEN JsonRun({g.buf}, "json", 0)
           ELSE UNCHANGED <<target, cmd_list, cmdStr, comm_mode, line, status,
                            out_buf, calls, old_target, faults, nreq, nvm, hw, probe>>

NextReader == RxIsr \/ Dispatch
SpecReader == InitReader /\ [][NextReader]_vars

\* _dispatch() changes the state: the reader returns a line and the parser
\* runs, or the reader's own state changes
DispatchEnabled ==
    \E g \in {xio_gets_usart(rx)} :
        IF g.ret = "XIO_OK" THEN nreq < MaxRequests ELSE g # rx

\* the receiver delivers every character sent, and main() calls
\* _controller() for ever: weak fairness of RxIsr and of Dispatch, the
\* latter written out with its enabling condition as a state predicate
SpecReaderFair ==
    /\ SpecReader
    /\ WF_vars(RxIsr)
    /\ ([]<>(~DispatchEnabled) \/ []<><<Dispatch>>_vars)

---------------------------------------------------------------------------
(* A group is read and a child of the response is sent back               *)

\* the n-th '"' of t at or after pointer p, 0 when there is none
RECURSIVE NthQuote(_, _, _)
NthQuote(t, p, n) ==
    LET q == strchr(t, p, "\"")
    IN  IF q = 0 \/ n = 1 THEN q ELSE NthQuote(t, q + 1, n - 1)

\* the object a response gives a group: it opens at the third '{' of the
\* response and ends at the first '}' after it
GroupObjectOpen(out) == strchr(out, strchr(out, 2, "{") + 1, "{")
GroupObject(out) ==
    Cut(out, GroupObjectOpen(out) + 1, strchr(out, GroupObjectOpen(out), "}"))
ChildrenShown(out) == Count(GroupObject(out), "\"") \div 2
ChildShown(out, k) ==
    Cut(GroupObject(out), NthQuote(GroupObject(out), 1, 2 * k - 1) + 1,
        NthQuote(GroupObject(out), 1, 2 * k))

\* {"G":null}
GroupGetLine(G) == <<"{", "\"">> \o G \o <<"\"", ":", "n", "u", "l", "l", "}">>
\* {"G":{"child":v}}
ChildSetLine(G, child, v) ==
    <<"{", "\"">> \o G \o <<"\"", ":", "{", "\"">> \o child \o <<"\"", ":", v, "}", "}">>

EchoValues == {"1", "2", "3", "4", "5"}

\* a group is read
GroupGet ==
    /\ probe.op # "group_get"
    /\ JsonRun({GroupGetLine(cfg(gi).token) : gi \in GroupIndexes}, "group_get", 0)
    /\ UNCHANGED rx

\* the k-th child name the response shows is sent back inside the group
ChildBack ==
    /\ probe.op = "group_get"
    /\ status = SC_OK
    /\ \E k \in 1..ChildrenShown(out_buf) :
          JsonRun({ChildSetLine(RequestPair.name, ChildShown(out_buf, k), v) :
                     v \in EchoValues}, "child_back", k)
    /\ UNCHANGED rx

NextEcho == GroupGet \/ ChildBack
SpecEcho == InitProgram /\ [][NextEcho]_vars

---------------------------------------------------------------------------
(* Properties of requests                                                  *)

\* C1: a JSON request that fails in normalization, in name/value parsing or
\* in token resolution invokes no get, set or persist and changes no target;
\* what it leaves in the list is what the response serializes.
C1_FailedParseExecutesNothing ==
    (probe.op = "json" /\ probe.stage \in {"normalize", "parse", "resolve"})
        => /\ status # SC_OK
           /\ calls = <<>>
           /\ target = old_target
           /\ out_buf = js_serialize_json(cmd_list, cmdStr, 1)

\* C1 witness: the second pair of a request failed to resolve after the first
\* pair had been parsed and resolved.
C1_Witness ==
    /\ probe.op = "json" /\ probe.stage = "resolve"
    /\ line = SecondUnknown
    /\ status = SC_UNRECOGNIZED_COMMAND
    /\ cmd_list[2].index = 1 /\ cmd_list[2].type = TYPE_FLOAT
    /\ cmd_list[3].index = NO_MATCH

\* C2: a get on a node that names group G makes the node a Parent and fills
\* the nodes after it with the single-valued entries of G, each once, in
\* registry order, holding the target values, and nothing after them.
C2_GroupFilled ==
    \A gi \in GroupIndexes :
        (calls # <<>> /\ calls[1] = <<"get", gi>> /\ cmd_list[2].token = cfg(gi).token)
            => LET m == GroupMembersOf(gi)
               IN  /\ cmd_list[2].type = TYPE_PARENT
                   /\ \A j \in 1..Len(m) :
                        /\ cmd_list[2 + j].index = m[j]
                        /\ cmd_list[2 + j].type \in {TYPE_INTEGER, TYPE_FLOAT}
                        /\ cmd_list[2 + j].value = target[m[j]]
                        /\ cmd_list[2 + j].depth = cmd_list[2].depth + 1
                   /\ cmd_list[2 + Len(m) + 1].type = TYPE_EMPTY

\* C2 witness: the ten entries of group h1 were read into nodes 3 to 12.
C2_Witness ==
    /\ probe.op = "json" /\ line = GetH1 /\ status = SC_OK
    /\ calls[1] = <<"get", CMD_INDEX_START_GROUPS + 1>>
    /\ Len(GroupMembersOf(CMD_INDEX_START_GROUPS + 1)) = 10
    /\ cmd_list[12].index = 12 /\ cmd_list[12].type = TYPE_INTEGER

\* C7: the key that cmd_get_index() builds from group and token for a JSON or
\* text request never exceeds CMD_TOKEN_LEN characters.
C7_KeyFitsBuffer ==
    probe.op \in {"json", "text"} => "key_overflow" \notin faults

\* C8: after a single-pair JSON request {token: v} with a numeric v on a
\* single-valued entry, the target holds v and the response pairs the token
\* with v.
C8_SetStoresAndEchoes ==
    (/\ probe.op = "json"
     /\ Len(line) <= JSON_OUTPUT_STRING_MAX
     /\ Count(Normalized(line), ":") = 1
     /\ RequestPair.kind = "number"
     /\ SingleValued(cmd_get_index(<<>>, RequestPair.name)))
        => /\ target[cmd_get_index(<<>>, RequestPair.name)] = RequestPair.num
           /\ ResponsePair.name = RequestPair.name
           /\ ResponsePair.kind = "number"
           /\ ResponsePair.num = RequestPair.num

\* a request that only asks for a value: JSON null or "", or a bare text token
IsReadRequest ==
    \/ probe.op = "json" /\ Len(line) <= JSON_OUTPUT_STRING_MAX /\ IsNullValue(RequestPair)
    \/ probe.op = "text" /\ strpbrk(line, 1, TextSeparators) = 0

\* C9: a request whose value is null, "" or absent changes no target and
\* calls no set; when it succeeds the response carries the current value of
\* the entry, or of every entry of the group, in the format of its type.
C9_NullOnlyReads ==
    IsReadRequest
        => /\ target = old_target
           /\ \A n \in 1..Len(calls) : calls[n][1] = "get"
           /\ status = SC_OK =>
                /\ calls # <<>>
                /\ SingleValued(cmd_list[2].index)
                     => /\ cmd_list[2].value = target[cmd_list[2].index]
                        /\ out_buf = ExpectedRead(cmd_list[2].index)
                /\ cmd_list[2].index \in GroupIndexes
                     => out_buf = ExpectedGroupRead(cmd_list[2].index)

\* C9 witness: the second request read, with "", the heater state the first
\* request had set to 2.
C9_Witness ==
    /\ probe.op = "json" /\ line = GetH1st /\ nreq = 2 /\ status = SC_OK
    /\ target[3] = 2 * SCALE /\ target[3] # InitTarget[3]
    /\ cmd_list[2].value = 2 * SCALE

\* C10: a cmd_get() that directly follows a cmd_get() on the same node
\* returns the same status and leaves the node with the same type and value.
C10_GetTwiceSame ==
    [][(probe.op = "get" /\ probe'.op = "get")
         => /\ status' = status
            /\ cmd_list'[2].type = cmd_list[2].type
            /\ cmd_list'[2].value = cmd_list[2].value
            /\ cmd_list' = cmd_list]_vars

\* C10 witness: cmd_get() ran twice in a row on a node of a float entry.
C10_Witness ==
    /\ probe.op = "get" /\ probe.n = 2 /\ status = SC_OK
    /\ cmd_list[2].type = TYPE_FLOAT /\ calls = <<<<"get", cmd_list[2].index>>>>

HoldsAt(t, i, w) == i + Len(w) - 1 <= Len(t) /\ SubSeq(t, i, i + Len(w) - 1) = w

\* the opening of a footer element: "f":[
FooterOpen == <<"\"", "f", "\"", ":", "[">>

\* C12: every response to a JSON request holds a footer element, and the
\* status code of the request is written in it.
C12_FooterCarriesStatus ==
    probe.op = "json"
        => \E i \in 1..Len(out_buf) :
              /\ HoldsAt(out_buf, i, FooterOpen)
              /\ \E j \in (i + Len(FooterOpen))..Len(out_buf) :
                    HoldsAt(out_buf, j, DecDigits(status))

---------------------------------------------------------------------------
(* Direct calls of the resolver, over the compiled table and over small    *)
(* tables that hold a token and a longer token it is a prefix of           *)

gc == <<"g","c">>
gco == <<"g","c","o">>
TableLongFirst == <<gco, gc, <<"g","c","o","d","e">> >>
TableShortFirst == <<gc, gco, <<"g","c","o","d","e">> >>
ProbeTables == {Tokens(cfgArray), TableLongFirst, TableShortFirst}

ProbeGroups == {<<>>, <<"g">>, <<"h","1">>, <<"s","y","s">>}
ProbeTokens ==
    {<<>>, <<"c">>, <<"c","o">>, gc, gco, <<"g","c","o","x">>, <<"g","c","o","d","e">>,
     <<"g","c","o","d","e","x">>, <<"g","c","x">>, <<"c","o","d","e","x">>,
     <<"s","t">>, <<"t","m","p">>, <<"t","m","p","x">>, <<"f","v">>,
     <<"h","1">>, <<"h","1","s","t">>, <<"h","1","t","m","p">>,
     <<"h","1","t","m","p","x">>, <<"h","1","s","t","x">>, <<"s","y","s">>,
     <<"s","t","x","y">>}

InitResolve ==
    /\ target = InitTarget
    /\ cmd_list = cmd_reset_list([k \in 1..CMD_LIST_LEN |-> ZeroObj])
    /\ cmdStr = ZeroPool
    /\ comm_mode = JSON_MODE
    /\ line = <<>>
    /\ status = SC_OK
    /\ out_buf = <<>>
    /\ calls = <<>>
    /\ old_target = InitTarget
    /\ faults = {}
    /\ nreq = 0
    /\ nvm = InitNvm
    /\ hw = InitHw
    /\ rx = InitRx
    /\ probe \in [op : {"resolve"}, tokens : ProbeTables, group : ProbeGroups,
                   token : ProbeTokens, done : {FALSE}, result : {NO_MATCH}]

Resolve ==
    /\ probe.op = "resolve"
    /\ ~probe.done
    /\ \E r \in IndexOutcomes(probe.tokens, probe.group, probe.token) :
          probe' = [probe EXCEPT !.done = TRUE, !.result = r]
    /\ UNCHANGED <<target, cmd_list, cmdStr, comm_mode, line, status, out_buf,
                   calls, old_target, faults, nreq, nvm, hw, rx>>

NextResolve == Resolve

SpecResolve == InitResolve /\ [][NextResolve]_vars

IsPrefix(a, b) == Len(a) <= Len(b) /\ SubSeq(b, 1, Len(a)) = a
IsProperPrefix(a, b) == Len(a) < Len(b) /\ IsPrefix(a, b)

C6_ExactLowestMatch ==
    (probe.op = "resolve" /\ probe.done)
        => LET eq == {i \in 1..Len(probe.tokens) :
                        probe.tokens[i] = KeyOf(probe.group, probe.token)}
           IN  IF eq = {} THEN probe.result = NO_MATCH
               ELSE probe.result = Min(eq) - 1

\* a resolved probe of a table that holds token i before a longer token j it
\* is a proper prefix of, with token j as the key
ShortBeforeLong(i, j) ==
    /\ probe.op = "resolve"
    /\ probe.done
    /\ i < j
    /\ IsProperPrefix(probe.tokens[i], probe.tokens[j])
    /\ KeyOf(probe.group, probe.token) = probe.tokens[j]

---------------------------------------------------------------------------
(* Direct calls of the serializer on node lists                            *)

MaxNodes == 4
MaxDepth == 2

TestNode(t, d) == [ZeroObj EXCEPT !.type = t, !.depth = d, !.token = <<"a">>,
                                  !.value = 42 * SCALE]
TestNodes == {TestNode(t, d) : t \in {TYPE_EMPTY, TYPE_PARENT, TYPE_INTEGER},
                               d \in 0..MaxDepth}

InitSerialize ==
    /\ target = InitTarget
    /\ cmd_list \in [1..MaxNodes -> TestNodes]
    /\ cmdStr = ZeroPool
    /\ comm_mode = JSON_MODE
    /\ line = <<>>
    /\ status = SC_OK
    /\ out_buf = <<>>
    /\ calls = <<>>
    /\ old_target = InitTarget
    /\ faults = {}
    /\ nreq = 0
    /\ nvm = InitNvm
    /\ hw = InitHw
    /\ rx = InitRx
    /\ probe = [op |-> "serialize", done |-> FALSE]

\* js_serialize_json(cmd_array, out_buf)
Serialize ==
    /\ probe.op = "serialize"
    /\ ~probe.done
    /\ out_buf' = js_serialize_json(cmd_list, cmdStr, 1)
    /\ probe' = [probe EXCEPT !.done = TRUE]
    /\ UNCHANGED <<target, cmd_list, cmdStr, comm_mode, line, status, calls,
                   old_target, faults, nreq, nvm, hw, rx>>

NextSerialize == Serialize

SpecSerialize == InitSerialize /\ [][NextSerialize]_vars

\* the nesting level after each character of a text: -1 once a brace closes
\* before it opens
RECURSIVE BraceLevel(_, _, _)
BraceLevel(t, p, level) ==
    IF level < 0 THEN 0 - 1
    ELSE IF p > Len(t) THEN level
    ELSE BraceLevel(t, p + 1, IF t[p] = "{" THEN level + 1
                              ELSE IF t[p] = "}" THEN level - 1 ELSE level)

Balanced(t) == BraceLevel(t, 1, 0) = 0

\* depths as cmd_reset_obj() and the footer pattern set them: no node is
\* above the level of the first, a child is one level below its Parent, any
\* other node is at or above the level before it, and the list does not end
\* on a Parent
DepthsSetCorrectly(list) ==
    /\ list[Len(list)].type # TYPE_PARENT
    /\ \A k \in 1..Len(list) : list[k].depth >= list[1].depth
    /\ \A k \in 1..(Len(list) - 1) :
          IF list[k].type = TYPE_PARENT THEN list[k + 1].depth = list[k].depth + 1
          ELSE list[k + 1].depth <= list[k].depth

\* C3: the text the serializer writes for a list whose depths are set
\* correctly is brace-balanced, whatever the depth sequence.
C3_BraceBalanced ==
    (probe.op = "serialize" /\ probe.done /\ DepthsSetCorrectly(cmd_list))
        => Balanced(out_buf)

---------------------------------------------------------------------------
(* Parsing one pair and serializing it back                                *)

PairNames ==
    {<<"f","v">>,
     <<"h","1","t","m","p">>,
     <<"x","_","f","e","e","d","r","a","t","e">>,
     <<"a">>,
     <<"F","V">>}

\* null, "", 0, 1200, -1456, 0.1234, 329.26, true, false, "abc",
\* "g0 (Hi There)", 12.5x, [1] and an object
PairValues ==
    {<<"n","u","l","l">>,
     <<"\"","\"">>,
     <<"0">>,
     <<"1","2","0","0">>,
     <<"-","1","4","5","6">>,
     <<"0",".","1","2","3","4">>,
     <<"3","2","9",".","2","6">>,
     <<"t","r","u","e">>,
     <<"f","a","l","s","e">>,
     <<"\"","a","b","c","\"">>,
     <<"\"","g","0"," ","(","H","i"," ","T","h","e","r","e",")","\"">>,
     <<"1","2",".","5","x">>,
     <<"[","1","]">>,
     <<"{">>}

OnePair(name, value) ==
    <<"{", "\"">> \o name \o <<"\"", ":">> \o value \o <<"}">>

RoundTripInputs == {OnePair(n, v) : n \in PairNames, v \in PairValues}

InitRoundTrip ==
    /\ target = InitTarget
    /\ cmd_list = cmd_reset_list([k \in 1..CMD_LIST_LEN |-> ZeroObj])
    /\ cmdStr = ZeroPool
    /\ comm_mode = JSON_MODE
    /\ line \in RoundTripInputs
    /\ status = SC_OK
    /\ out_buf = <<>>
    /\ calls = <<>>
    /\ old_target = InitTarget
    /\ faults = {}
    /\ nreq = 0
    /\ nvm = InitNvm
    /\ hw = InitHw
    /\ rx = InitRx
    /\ probe = [op |-> "roundtrip", done |-> FALSE]

\* _normalize_json_string() and _get_nv_pair_strict() on cmd_body, then
\* js_serialize_json(cmd_body) when the pair was accepted
RoundTrip ==
    /\ probe.op = "roundtrip"
    /\ ~probe.done
    /\ \E nv \in {get_nv_pair_strict(cmd_reset_list(cmd_list), cmdStr, 2,
                                     normalize_json_string(line, JSON_OUTPUT_STRING_MAX).str,
                                     1, {})} :
          /\ status' = nv.status
          /\ cmd_list' = nv.list
          /\ cmdStr' = nv.pool
          /\ faults' = nv.faults
          /\ out_buf' = IF nv.status = SC_OK THEN js_serialize_json(nv.list, nv.pool, 2)
                        ELSE <<>>
    /\ probe' = [probe EXCEPT !.done = TRUE]
    /\ UNCHANGED <<target, comm_mode, line, calls, old_target, nreq, nvm, hw, rx>>

NextRoundTrip == RoundTrip

SpecRoundTrip == InitRoundTrip /\ [][NextRoundTrip]_vars

Accepted == probe.op = "roundtrip" /\ probe.done /\ status = SC_OK

\* the pair of the input line and the pair of the text written back
InPair == ReadPair(Normalized(line))
OutPair == ReadPair(out_buf)

\* a value as "%0.3f" writes it
Round3(v) == (IF v < 0 THEN 0 - 1 ELSE 1) * (((Abs(v) + 5) \div 10) * 10)

\* C4 as stated: the pair written back for an accepted input has the name,
\* the value type and the value of the input.
C4_RoundTripExact ==
    Accepted => /\ OutPair.name = InPair.name
                /\ OutPair.kind = InPair.kind
                /\ OutPair.num = InPair.num
                /\ OutPair.text = InPair.text

\* C4 amended: the pair written back has the first CMD_TOKEN_LEN characters
\* of the normalized name; a number comes back rounded to three decimals, a
\* string and a boolean come back as they were normalized, and null comes
\* back as the empty string.
C4_RoundTripAmended ==
    Accepted => /\ OutPair.name = strncpy(InPair.name, CMD_TOKEN_LEN)
                /\ InPair.kind # "none"
                /\ IsNullValue(InPair) => OutPair.kind = "string" /\ OutPair.text = <<>>
                /\ InPair.kind = "number"
                     => OutPair.kind = "number" /\ OutPair.num = Round3(InPair.num)
                /\ InPair.kind \in {"string", "true", "false"} /\ ~IsNullValue(InPair)
                     => OutPair.kind = InPair.kind /\ OutPair.text = InPair.text

\* C4 witness: {"x_feedrate":0.1234} was accepted and written back as
\* {"x_fee":0.123}.
C4_Witness ==
    /\ Accepted
    /\ InPair.name = <<"x","_","f","e","e","d","r","a","t","e">>
    /\ InPair.num = 1234
    /\ OutPair.name = <<"x","_","f","e","e">>
    /\ OutPair.num = 1230

---------------------------------------------------------------------------
(* Properties of malformed lines and of text lines                         *)

\* the normalized line has a comma directly before a closing curly
TrailingCommaLine ==
    /\ Len(line) <= JSON_OUTPUT_STRING_MAX
    /\ \E i \in 1..(Len(Normalized(line)) - 1) :
          Normalized(line)[i] = "," /\ Normalized(line)[i + 1] = "}"

\* a node the parser filled whose group and token name no entry
UnresolvedNode ==
    \E k \in 2..CMD_LIST_LEN :
        /\ cmd_list[k].type # TYPE_EMPTY
        /\ cmd_get_index(cmd_list[k].group, cmd_list[k].token) = NO_MATCH

C14_OverLengthRejectedFirst ==
    [][probe'.op = "json" /\ nreq' = nreq + 1
         => IF Len(line') > JSON_OUTPUT_STRING_MAX
            THEN /\ status' = SC_INPUT_EXCEEDS_MAX_LENGTH
                 /\ cmd_list' = cmd_reset_list(cmd_list)
                 /\ calls' = <<>>
                 /\ target' = target
            ELSE status' # SC_INPUT_EXCEEDS_MAX_LENGTH]_vars

\* C14 witness: an over-long line was turned away after a set had filled
\* the first body node.
C14_Witness ==
    /\ probe.op = "json" /\ line = TooLong /\ nreq = 2
    /\ Len(line) = JSON_OUTPUT_STRING_MAX + 1
    /\ status = SC_INPUT_EXCEEDS_MAX_LENGTH /\ probe.stage = "normalize"
    /\ cmd_list[2].type = TYPE_EMPTY /\ cmd_list[2].value = 2 * SCALE
    /\ target[3] = 2 * SCALE

\* the parser met a value that begins with '[': the node it was filling has
\* the array type
ArrayNode == \E k \in 2..CMD_LIST_LEN : cmd_list[k].type = TYPE_ARRAY

\* the text from the first '[' of the normalized line to its end, which is
\* what the parser copies into the string pool
ArrayText ==
    LET s == Normalized(line)
    IN  From(s, strchr(s, 1, "["))

MalformedQuoting == {NoQuotes, OneQuote}
Kind(l) ==
    IF Len(l) > JSON_OUTPUT_STRING_MAX THEN "length"
    ELSE IF l \in MalformedQuoting THEN "quoting"
    ELSE IF l = NoColon THEN "colon"
    ELSE IF l = OpenString THEN "string"
    ELSE "other"

ParsedList ==
    ParseRequest(cmd_reset_list(cmd_list), [cmdStr EXCEPT !.wp = 0], line, BenignUb).list

\* the gets, sets and persists of the call log, in order
IsWalkCall(c) == c[1] \in {"get", "set", "fail", "persist"}
WalkCalls == SelectSeq(calls, IsWalkCall)

\* what a walk over the children from node k on calls: a get for a Null
\* child, a set and then a persist for any other, up to the first Empty node
\* or the end of the list
RECURSIVE ExpectedWalk(_, _, _)
ExpectedWalk(pre, k, i) ==
    IF i >= CMD_MAX_OBJECTS \/ k > CMD_LIST_LEN THEN <<>>
    ELSE IF pre[k].type = TYPE_EMPTY THEN <<>>
    ELSE IF pre[k].type = TYPE_NULL
         THEN << <<"get", pre[k].index>> >> \o ExpectedWalk(pre, k + 1, i + 1)
         ELSE << <<"set", pre[k].index>>, <<"persist", pre[k].index>> >>
                  \o ExpectedWalk(pre, k + 1, i + 1)

\* pre is the list of a request that sets its lead node and whose children
\* all name single-valued entries
SetOfSingles(pre) ==
    /\ pre[2].type # TYPE_NULL
    /\ \A k \in 3..CMD_LIST_LEN :
          pre[k].type # TYPE_EMPTY => SingleValued(pre[k].index)

\* a JSON request that ran with a group as its lead node
GroupRequest ==
    /\ probe.op = "json" /\ probe.stage = "done"
    /\ "key_overflow" \notin faults
    /\ cmd_list[2].index \in GroupIndexes

\* a JSON request that set a group whose children all name single-valued
\* entries
GroupSetRequest == GroupRequest /\ SetOfSingles(ParsedList)

\* the call log is the group's set, the walk over pre's children and the
\* group's persist
WalkedAs(pre) ==
    SetOfSingles(pre)
        => WalkCalls = << <<"set", pre[2].index>> >>
                          \o ExpectedWalk(pre, 3, 0)
                          \o << <<"persist", pre[2].index>> >>

\* C17: the set of a group calls, for its children in list order up to the
\* first Empty node, a get for each Null child and a set followed by a
\* persist for each other child, and nothing else; the group's own set comes
\* before and its persist after.
C17_GroupSetWalk == GroupRequest => \E pre \in {ParsedList} : WalkedAs(pre)

\* C17 witness: {"h1":{"st":null,"set":200}} read the state and then wrote
\* and persisted the setpoint.
C17_Witness ==
    /\ GroupSetRequest /\ line = MixedGroup
    /\ ParsedList[3].type = TYPE_NULL /\ ParsedList[4].type = TYPE_FLOAT
    /\ ParsedList[5].type = TYPE_EMPTY
    /\ Len(WalkCalls) = 5
    /\ WalkCalls[2][1] = "get" /\ WalkCalls[3][1] = "set" /\ WalkCalls[4][1] = "persist"
    /\ target[cmd_list[4].index] = 200 * SCALE

\* C18: a request handled by the text parser that sets a group ends with
\* SC_UNRECOGNIZED_COMMAND and changes no target.
C18_TextGroupSetRejected ==
    (/\ probe.op = "text"
     /\ \E n \in 1..Len(calls) : calls[n][1] = "set" /\ calls[n][2] \in GroupIndexes)
        => status = SC_UNRECOGNIZED_COMMAND /\ target = old_target

\* the text line as the parser reads it: without a leading '$', in lower
\* case; the name ends at the first separator, and the value is what follows
TextBody ==
    LET b == IF At(line, 1) = "$" THEN From(line, 2) ELSE line
    IN  [i \in 1..Len(b) |-> tolower(b[i])]
TextSep == strpbrk(TextBody, 1, TextSeparators)
TextName == IF TextSep = 0 THEN TextBody ELSE Cut(TextBody, 1, TextSep)
TextValue == IF TextSep = 0 THEN <<>> ELSE From(TextBody, TextSep + 1)

DigitChars == {"0", "1", "2", "3", "4", "5", "6", "7", "8", "9"}
\* v begins, after blanks and an optional sign, with a digit or with a point
\* and a digit
RECURSIVE NumberLike(_)
NumberLike(v) ==
    IF v = <<>> THEN FALSE
    ELSE IF Head(v) \in {" ", "\t"} THEN NumberLike(Tail(v))
    ELSE LET u == IF Head(v) \in {"+", "-"} THEN Tail(v) ELSE v
         IN  /\ u # <<>>
             /\ \/ Head(u) \in DigitChars
                \/ Head(u) = "." /\ Len(u) > 1 /\ u[2] \in DigitChars

\* the text request went on as the type ty asks: a Float node is set, a Null
\* node is read; when the name did not resolve the node keeps the type
TextTypedAs(ty) ==
    IF probe.stage = "resolve" THEN cmd_list[2].type = ty
    ELSE calls # <<>> /\ calls[1][1] = (IF ty = TYPE_FLOAT THEN "set" ELSE "get")

\* the lead node has the name of the line, cut to the token length, and the
\* index that name has with an empty group
TextResolved ==
    /\ cmd_list[2].token = strncpy(TextName, CMD_TOKEN_LEN)
    /\ cmd_list[2].index = cmd_get_index(<<>>, cmd_list[2].token)
    /\ (probe.stage = "resolve") = (cmd_list[2].index = NO_MATCH)

C20_TextFailureEchoes ==
    (probe.op = "text" /\ status # SC_OK)
        => out_buf # <<>> /\ out_buf # cmd_print_list(cmd_list, cmdStr)

---------------------------------------------------------------------------
(* Properties of the list between and within requests                      *)

\* the list and the pool of a program that has handled no request
FreshList == cmd_reset_list([k \in 1..CMD_LIST_LEN |-> ZeroObj])

\* what a request shows of its run R
Shown(R, printed) ==
    [status |-> R.status, target |-> R.target, wp |-> R.pool.wp,
     out |-> IF printed THEN cmd_print_list(R.list, R.pool) ELSE <<>>]
ShownText(R) == Shown(R, R.printed)

\* the request ln handled by a program that has handled none, with the
\* targets tgt
FreshRun(op, tgt, ln) ==
    IF op = "json"
    THEN Shown(json_parser_kernal(FreshList, ZeroPool, tgt, ln, BenignUb), TRUE)
    ELSE ShownText(cmd_text_parser(FreshList, ZeroPool, tgt, ln, BenignUb))

\* list is reset: one header node "r" of depth 0 and type Parent, and every
\* other node Empty
IsResetList(list) ==
    /\ list[1].token = <<"r">> /\ list[1].depth = 0 /\ list[1].type = TYPE_PARENT
    /\ \A k \in 2..CMD_LIST_LEN : list[k].type = TYPE_EMPTY /\ list[k].token = <<>>

\* the faults whose outcome the request draws from the oracle
OracleFaults == {"key_overflow", "ui8_range"}

\* C24: every JSON and text request starts from a reset list (one header
\* node "r", depth 0, type Parent; every other node Empty) and from pool
\* write position 0, and its status, its response, its targets and its
\* final write position are those of the same request handled first after
\* start-up with the same targets: nothing of an earlier request shows.
C24_RequestsStartFresh ==
    [][(/\ nreq' = nreq + 1 /\ probe'.op \in {"json", "text"}
        /\ faults' \cap OracleFaults = {})
           => /\ IsResetList(cmd_reset_list(cmd_list))
              /\ Shown([status |-> status', target |-> target', pool |-> cmdStr',
                        list |-> cmd_list'], out_buf' # <<>>)
                   = FreshRun(probe'.op, target, line')]_vars

\* C24 witness: a read of the heater state answered after a request that
\* had filled three nodes and moved the targets; the nodes it left are Empty
\* and still hold its values.
C24_Witness ==
    /\ nreq = 2 /\ probe.op = "json" /\ line = GetH1st
    /\ status = SC_OK
    /\ cmd_list[3].type = TYPE_EMPTY /\ cmd_list[3].value # 0
    /\ cmd_list[4].type = TYPE_EMPTY /\ cmd_list[4].value = 200 * SCALE
    /\ \E i \in DOMAIN target : target[i] # InitTarget[i]

\* node k has the depth its previous node asks for
DepthFollows(k) ==
    cmd_list[k].depth = IF cmd_list[k - 1].type = TYPE_PARENT
                        THEN cmd_list[k - 1].depth + 1
                        ELSE cmd_list[k - 1].depth

TerminalStatuses ==
    {SC_OK, SC_UNRECOGNIZED_COMMAND, SC_BAD_NUMBER_FORMAT, SC_INPUT_EXCEEDS_MAX_LENGTH,
     SC_INPUT_VALUE_UNSUPPORTED, SC_JSON_SYNTAX_ERROR, SC_JSON_TOO_MANY_PAIRS,
     SC_BUFFER_FULL}

\* the parse loop filled at most CMD_BODY_LEN - 1 nodes of pre, all of them
\* among the first CMD_BODY_LEN - 1 body nodes
FilledWithin(pre) ==
    /\ Cardinality({k \in 2..CMD_LIST_LEN : pre[k].type # TYPE_EMPTY}) <= CMD_BODY_LEN - 1
    /\ \A k \in (CMD_BODY_LEN + 1)..CMD_LIST_LEN : pre[k].type = TYPE_EMPTY

\* C26: every JSON request, malformed and truncated ones included, ends with
\* a terminal status; the parse loop fills at most CMD_BODY_LEN - 1 nodes,
\* none of them past the body; a well-formed request with more pairs than
\* that ends with SC_JSON_TOO_MANY_PAIRS, and one with that many or fewer
\* does not.
C26_ParseLoopBounded ==
    probe.op = "json"
        => /\ status \in TerminalStatuses
           /\ \E pre \in {ParsedList} : FilledWithin(pre)
           /\ \A n \in 1..(CMD_BODY_LEN + 1) :
                 line = ManyPairs(n)
                     => (status = SC_JSON_TOO_MANY_PAIRS) = (n > CMD_BODY_LEN - 1)

\* C26 witness: a request with CMD_BODY_LEN pairs ended with
\* SC_JSON_TOO_MANY_PAIRS after CMD_BODY_LEN - 1 nodes were filled, and
\* changed no target.
C26_Witness ==
    /\ probe.op = "json" /\ line = ManyPairs(CMD_BODY_LEN)
    /\ status = SC_JSON_TOO_MANY_PAIRS
    /\ \A k \in 2..CMD_BODY_LEN : cmd_list[k].type = TYPE_FLOAT
    /\ cmd_list[CMD_BODY_LEN + 1].type = TYPE_EMPTY
    /\ target = old_target /\ calls = <<>>

\* pre holds several pairs of the top level and no group
SeveralTopLevelPairs(pre) ==
    /\ pre[3].type # TYPE_EMPTY
    /\ \A k \in 2..CMD_LIST_LEN : pre[k].type # TYPE_PARENT

\* the call log is a get for each Null pair of pre and a set followed by a
\* persist for each other pair, in list order
ExecutedInOrder(pre) ==
    SeveralTopLevelPairs(pre) => WalkCalls = ExpectedWalk(pre, 2, 0)

\* C28: after a JSON request with several top-level pairs that built its
\* list and returned OK, every parsed pair has been executed, a get for a
\* Null value and a set otherwise, in list order.
C28_EveryPairExecuted ==
    (probe.op = "json" /\ probe.stage = "done" /\ status = SC_OK /\ faults = {})
        => \E pre \in {ParsedList} : ExecutedInOrder(pre)

\* the first value of the normalized line s is a number that strtod() ends
\* before a character that is not a terminator
NumberWithTail(s) ==
    LET co == strchr(s, 1, ":")
        num == strtod(s, co + 1)
    IN  /\ co # 0
        /\ At(s, co + 1) \in DigitSet \cup {"-"}
        /\ num.end # co + 1
        /\ At(s, num.end) \notin {"}", ",", NUL}

\* C29: a JSON request whose number value is followed by characters that
\* are neither part of the number nor a terminator fails and writes no target.
C29_NumberWithTailFails ==
    (probe.op = "json" /\ probe.stage = "done" /\ NumberWithTail(Normalized(line)))
        => (status # SC_OK /\ target = old_target)

\* how many times the character c stands in s
CountOf(s, c) == Cardinality({i \in 1..Len(s) : s[i] = c})

\* s opens more objects than it closes, or opens a string it does not close
Unclosed(s) ==
    \/ CountOf(s, "{") > CountOf(s, "}")
    \/ CountOf(s, "\"") % 2 = 1

\* C30: a JSON request in which an opened object is not closed or a string
\* has no closing quote ends with the syntax error status and changes no target.
C30_UnclosedIsSyntaxError ==
    (/\ probe.op = "json" /\ probe.stage = "done"
     /\ Len(line) <= JSON_OUTPUT_STRING_MAX
     /\ Unclosed(Normalized(line)))
        => (status = SC_JSON_SYNTAX_ERROR /\ target = old_target)

---------------------------------------------------------------------------
(* Properties of the heater                                                *)

HeaterState == target[heater_state] \div SCALE
HeaterStateBefore == old_target[heater_state] \div SCALE
HeaterRuns == probe.op \in {"heater_on", "sensor_callback", "heater_callback"}

\* C31: a heater_callback() that starts with the heater HEATING or REGULATED
\* and reads a temperature above overheat_temperature switches the heater
\* off in that callback: PWM off, sensor off, no reading started and no new
\* duty cycle computed, state SHUTDOWN with code OVERHEATED.
C31_OverheatShutsDown ==
    [][(/\ probe'.op = "heater_callback"
        /\ nreq' = nreq + 1
        /\ HeaterState \in {HEATER_HEATING, HEATER_REGULATED}
        /\ sensor_get_temperature(Mem) > target[heater_overheat_temperature])
          => (/\ target'[heater_state] = HEATER_SHUTDOWN * SCALE
              /\ hw'.code = HEATER_OVERHEATED
              /\ hw'.ops = <<"pwm_off", "pwm_set_duty", "sensor_off">>
              /\ hw'.pwm_duty = 0
              /\ hw'.pwm_freq = 0
              /\ target'[sensor_state] = SENSOR_OFF * SCALE
              /\ hw'.pid_output = hw.pid_output)]_vars

\* C31 witness: a heater that was HEATING at full duty read more than the
\* overheat temperature and is shut down with the PWM and the sensor off.
C31_Witness ==
    /\ probe.op = "heater_callback"
    /\ HeaterStateBefore = HEATER_HEATING
    /\ target[heater_temperature] > target[heater_overheat_temperature]
    /\ HeaterState = HEATER_SHUTDOWN
    /\ hw.code = HEATER_OVERHEATED
    /\ hw.pid_output = target[pid_output_max]
    /\ hw.pwm_duty = 0
    /\ target[sensor_state] = SENSOR_OFF * SCALE

\* C32: a heater that has started more successive callbacks HEATING with a
\* valid reading below ambient_temperature than fit in ambient_timeout
\* seconds is shut down with code AMBIENT_TIMED_OUT.
C32_AmbientTimeoutShutsDown ==
    (/\ probe.op = "heater_callback"
     /\ probe.cold * HEATER_TICK_SECONDS > target[heater_ambient_timeout])
        => (HeaterState = HEATER_SHUTDOWN /\ hw.code = HEATER_AMBIENT_TIMED_OUT)

\* the transitions the comments of tcHeaterState name
DocumentedTransitions ==
    {<<HEATER_OFF, HEATER_HEATING>>, <<HEATER_SHUTDOWN, HEATER_HEATING>>,
     <<HEATER_HEATING, HEATER_REGULATED>>, <<HEATER_HEATING, HEATER_SHUTDOWN>>,
     <<HEATER_REGULATED, HEATER_OFF>>, <<HEATER_REGULATED, HEATER_SHUTDOWN>>}

\* the transitions heater_on() and heater_callback() make
FunctionTransitions ==
    {<<HEATER_OFF, HEATER_HEATING>>, <<HEATER_SHUTDOWN, HEATER_HEATING>>,
     <<HEATER_HEATING, HEATER_REGULATED>>, <<HEATER_HEATING, HEATER_SHUTDOWN>>,
     <<HEATER_REGULATED, HEATER_HEATING>>, <<HEATER_REGULATED, HEATER_SHUTDOWN>>}

---------------------------------------------------------------------------
(* Properties of the gateways                                              *)

\* C21: cmd_get, cmd_set and cmd_print called with an index at or past the
\* end of the table run no accessor and read no table entry, and cmd_get and
\* cmd_set return SC_UNRECOGNIZED_COMMAND.
C21_GatewaysCheckIndex ==
    (probe.op \in {"cmd_get", "cmd_set", "cmd_print"} /\ probe.index >= CMD_INDEX_MAX)
        => /\ \A n \in 1..Len(calls) : calls[n][1] \notin {"get", "set", "print", "wild"}
           /\ "table_overrun" \notin faults
           /\ probe.op # "cmd_print" => status = SC_UNRECOGNIZED_COMMAND

\* C22: cmd_write_NVM_value() is reached only for an entry below the first
\* group index whose flags have F_PERSIST; a cmd_persist() call for a
\* group, for an index past the table or for an entry without the flag does
\* nothing but return.
C22_PersistOnlyFlaggedSingles ==
    /\ \A n \in 1..Len(calls) :
          calls[n][1] = "nvm"
              => /\ calls[n][2] < CMD_INDEX_START_GROUPS
                 /\ F_PERSIST \in cfg(calls[n][2]).flags
    /\ (/\ probe.op = "cmd_persist"
        /\ \/ probe.index >= CMD_INDEX_START_GROUPS
           \/ F_PERSIST \notin cfg(probe.index).flags)
          => /\ calls = << <<"persist", probe.index>> >>
             /\ target = old_target
             /\ nvm = InitNvm

\* C22 witness: cmd_persist() on the node of fv, which has the flag, reached
\* cmd_write_NVM_value() with the node's value.
C22_Witness ==
    /\ probe.op = "cmd_persist" /\ probe.index = 1
    /\ F_PERSIST \in cfg(1).flags /\ 1 < CMD_INDEX_START_GROUPS
    /\ calls = << <<"persist", 1>>, <<"nvm", 1, 2 * SCALE>> >>

\* C23: after cmd_write_NVM_value() was reached with a value, the memory
\* holds that value for the index: a changed value is stored.
C23_ChangedValueStored ==
    \A n \in 1..Len(calls) :
        (/\ calls[n][1] = "nvm"
         /\ \A m \in (n + 1)..Len(calls) :
               ~(calls[m][1] = "nvm" /\ calls[m][2] = calls[n][2]))
            => nvm[calls[n][2]] = calls[n][3]

---------------------------------------------------------------------------
(* Properties of names and of lines ending in a comma                      *)

\* the name a request carries as it was sent, in lower case
NameSent == IF probe.op = "json" THEN RequestPair.name ELSE TextName
RegistryTokens == {cfgArray[i].token : i \in 1..Len(cfgArray)}

\* C34: a request whose name is not character for character a token of the
\* registry is rejected with SC_UNRECOGNIZED_COMMAND and changes no target,
\* also when the name is longer than a token and begins with one.
C34_UnequalNameRejected ==
    (probe.op \in {"json", "text"} /\ NameSent \notin RegistryTokens)
        => (status = SC_UNRECOGNIZED_COMMAND /\ target = old_target)

\* C39: the pre-processing loop of the text parser never moves its pointers
\* past the terminating NUL of the line, whatever the line is, also when the
\* line ends in a comma.
C39_PreprocessingStaysInLine ==
    probe.op = "text" => "line_overrun" \notin faults

\* C35: for every group and every member of it, the child name the group's
\* get response shows for the member, sent back inside a request for the
\* group, resolves to the entry of that member.
C35_ShownChildResolves ==
    probe.op = "child_back"
        => /\ status # SC_UNRECOGNIZED_COMMAND
           /\ cmd_list[3].index = GroupMembersOf(cmd_list[2].index)[probe.n]

---------------------------------------------------------------------------
(* Properties of the response text                                         *)

\* the pointer after the number that starts at pointer p of t, 0 when no
\* number starts there
NumberEnd(t, p) ==
    LET d == IF At(t, p) = "-" THEN p + 1 ELSE p
        e == SkipDigits(t, d)
        f == IF At(t, e) = "." THEN SkipDigits(t, e + 1) ELSE e
    IN  IF e = d \/ (At(t, e) = "." /\ f = e + 1) THEN 0 ELSE f

\* the pointer after the JSON value that starts at pointer p of t, and after
\* the members of an object or the elements of an array that go on at p;
\* 0 when the text is not a value, or the object or array is not closed
RECURSIVE ValueEnd(_, _), MembersEnd(_, _), ElementsEnd(_, _)
ValueEnd(t, p) ==
    LET c == At(t, p)
        q == strchr(t, p + 1, "\"")
    IN  IF c = "\"" THEN (IF q = 0 THEN 0 ELSE q + 1)
        ELSE IF c = "{" THEN (IF At(t, p + 1) = "}" THEN p + 2 ELSE MembersEnd(t, p + 1))
        ELSE IF c = "[" THEN (IF At(t, p + 1) = "]" THEN p + 2 ELSE ElementsEnd(t, p + 1))
        ELSE IF HoldsAt(t, p, <<"t","r","u","e">>) THEN p + 4
        ELSE IF HoldsAt(t, p, <<"f","a","l","s","e">>) THEN p + 5
        ELSE IF HoldsAt(t, p, <<"n","u","l","l">>) THEN p + 4
        ELSE NumberEnd(t, p)
MembersEnd(t, p) ==
    LET q == IF At(t, p) = "\"" THEN strchr(t, p + 1, "\"") ELSE 0
        v == IF q # 0 /\ At(t, q + 1) = ":" THEN ValueEnd(t, q + 2) ELSE 0
    IN  IF v = 0 THEN 0
        ELSE IF At(t, v) = "," THEN MembersEnd(t, v + 1)
        ELSE IF At(t, v) = "}" THEN v + 1
        ELSE 0
ElementsEnd(t, p) ==
    LET v == ValueEnd(t, p)
    IN  IF v = 0 THEN 0
        ELSE IF At(t, v) = "," THEN ElementsEnd(t, v + 1)
        ELSE IF At(t, v) = "]" THEN v + 1
        ELSE 0

\* t is one JSON object and the newline that ends the response
WellFormedObject(t) ==
    At(t, 1) = "{" /\ ValueEnd(t, 1) # 0 /\ From(t, ValueEnd(t, 1)) = <<"\n">>

\* C36: the response js_json_parser() prints for a request, accepted or
\* rejected, is a well-formed JSON object: the braces are balanced, one comma
\* stands between sibling members and none after '{' or before '}', and
\* every value is a complete JSON value.
C36_ResponseWellFormed ==
    (probe.op = "json" /\ "null_stringp" \notin faults) => WellFormedObject(out_buf)

---------------------------------------------------------------------------
(* Properties of the string pool                                           *)

\* C37: between two resets the write position of the string pool never
\* decreases and never exceeds the capacity of the pool, every string copied
\* lies inside the pool together with its terminator, and a call that
\* returns SC_BUFFER_FULL leaves the pool, the write position and the node
\* unchanged.
C37_PoolAppendOnlyBounded ==
    [][probe'.op = "cmd_copy_string"
          => /\ cmdStr'.wp >= cmdStr.wp
             /\ cmdStr'.wp <= CMD_SHARED_STRING_LEN
             /\ "pool_overrun" \notin faults'
             /\ status' = SC_BUFFER_FULL => (cmdStr' = cmdStr /\ cmd_list' = cmd_list)]_vars

\* C37 without the two bounds: the write position never decreases between
\* resets and a call that returns SC_BUFFER_FULL changes nothing
C37_AppendOnly ==
    [][probe'.op = "cmd_copy_string"
          => /\ cmdStr'.wp >= cmdStr.wp
             /\ status' = SC_BUFFER_FULL => (cmdStr' = cmdStr /\ cmd_list' = cmd_list)]_vars

---------------------------------------------------------------------------
(* Properties of the list arena                                            *)

\* the nodes of the list that follow the parent node of a request
NodesAfterParent == CMD_LIST_LEN - 2

---------------------------------------------------------------------------
(* Properties of the line reader                                           *)

\* the input the reader has not taken yet
Unread == rx.q \o rx.wire

\* the unread input holds the end of the line in progress and, after it, a
\* complete line that fits the buffer
FittingLineLater ==
    \E i, j \in 1..Len(Unread) :
        /\ i + 1 < j
        /\ j - i - 1 < InBufSize
        /\ Unread[i] \in {CR, LF}
        /\ Unread[j] \in {CR, LF}
        /\ \A k \in (i + 1)..(j - 1) : Unread[k] \notin {CR, LF}

\* C40: after the line reader has returned XIO_BUFFER_FULL_NON_FATAL for a
\* line longer than the buffer, it is not stuck: when the rest of that line
\* and a complete line that fits are still to be read, the reader eventually
\* returns XIO_OK for a line and the line reaches js_json_parser().
C40_ReaderRecovers ==
    (rx.ret = "XIO_BUFFER_FULL_NON_FATAL" /\ FittingLineLater)
        ~> (rx.ret = "XIO_OK" /\ probe.op = "json" /\ line = rx.buf)

\* once the buffer is full inside a line the reader stays as it is whatever
\* arrives: the length is not reset and no call returns XIO_OK
FullReaderStaysFull ==
    [][(rx.flag_in_line /\ rx.len >= InBufSize)
          => (rx'.len >= InBufSize /\ rx'.flag_in_line /\ rx'.ret # "XIO_OK")]_vars

=============================================================================
